---- MODULE Spec2Model ----
(***************************************************************************)
(* HydroPak back office: a model of the order / stock / inventory-ledger   *)
(* write path (backend/src/routes/orders.ts, deliveries.ts), the invoice   *)
(* balance bookkeeping (backend/src/routes/invoices.ts) and the analytics  *)
(* aggregator (backend/src/routes/analytics.ts).                           *)
(*                                                                         *)
(* Database transactions (prisma.$transaction) are modelled at PostgreSQL  *)
(* READ COMMITTED: a read inside a transaction sees the committed state at *)
(* the moment of the read, the writes of a transaction are kept in the     *)
(* request's own write set and reach the database together at commit, and  *)
(* a throw inside the callback discards the write set.  `increment` and    *)
(* `decrement` are relative updates, so a write set holds stock deltas.    *)
(* Money is modelled in integer units.                                     *)
(***************************************************************************)
EXTENDS Integers, Sequences, FiniteSets, TLC

\* ------------------------------------------------------------------ bounds
MaxQty == 2          \* largest item quantity a request carries
MaxItems == 2        \* most items in one POST /orders body
MaxOrders == 2       \* most POST /orders transactions opened
MaxLedger == 6       \* no status update is opened once the ledger is this long
MaxDeliveries == 1   \* most deliveries created
InitStock == 1       \* stock of every product in the initial database
MaxInvoices == 1     \* most invoices created
MaxInvItems == 1     \* most items in one POST /invoices body
MaxInvQty == 1       \* largest invoice item qty
MaxPrice == 1        \* largest invoice item price
MaxTax == 1          \* largest tax
MaxDiscount == 2     \* largest discount
MaxPaid == 2         \* largest paidAmount a status update carries
MaxDay == 2          \* analytics rows are created on days 0..MaxDay
TicksPerDay == 2     \* instants in a calendar day
MaxRows == 2         \* most order and invoice rows the analytics tables hold
MaxTotal == 1        \* largest invoice total in the analytics tables
MaxSales == 11       \* most sales in the top-list tables
MaxPdfRequests == 3  \* most GET /invoices/:id/pdf requests received
DaysPerYear == 2     \* days in a calendar year of the modelled calendar
MaxInvRequests == 3  \* most POST /invoices transactions opened
MaxDashDay == 15     \* dashboard invoices are created on days 0..MaxDashDay
MaxDashRows == 2     \* most invoice rows the dashboard aggregates read
MaxChanRows == 2     \* most order rows, and most invoice rows, the channel grouping reads
MaxChange == 1       \* largest stock adjustment, up or down
MaxAdjusts == 2      \* most stock adjustments opened

\* ------------------------------------------------------- program constants
\* the length top lists are cut to: `.slice(0, 10)`
TopN == 10
OrderStatusEnum == {"PENDING", "SCHEDULED", "OUT_FOR_DELIVERY", "DELIVERED", "CANCELLED"}
DeliveryStatusApi == {"scheduled", "out_for_delivery", "delivered", "failed"}

\* The statuses the modelled requests carry: POST /orders gives none (PENDING)
\* or CANCELLED; PUT /orders/:id/status gives one of StatusInputs.
CreateStatusInputs == {"PENDING", "CANCELLED"}
StatusInputs == {"PENDING", "DELIVERED", "CANCELLED"}

\* Product rows of the database, and the product ids a request may name
\* ("px" names no product row).
Products == {"p1", "p2"}
ProductIds == Products \cup {"px"}
\* Order ids a request may name (MaxOrders + 1 never names an order row).
OrderIds == 1..(MaxOrders + 1)
DeliveryIds == 1..(MaxDeliveries + 1)
\* two requests can be in flight at the same time
Slots == {1, 2}

VARIABLES
  stock,       \* Product.stock, per product row
  orders,      \* committed Order rows: id -> [status, items]
  movements,   \* InventoryMovement ledger, in insertion order
  deliveries,  \* committed Delivery rows: id -> [orderId, status]
  orderSeq,    \* ids handed out by Order's id/orderNumber sequence so far
  reqs         \* requests in flight, per slot

VARIABLES
  invoices,    \* Invoice rows: id -> [total, paidAmount, balance, status]
  invReq       \* the PUT /invoices/:id/status request being handled

VARIABLES
  db,          \* the rows the analytics queries read: [orders, invoices, items]
  range,       \* the resolved window [start, end] of that request
  payload      \* the response of the analytics request just answered (<<>>: none)

VARIABLES
  hasS3,       \* storage mode of the deployment: S3 (TRUE) or local disk
  pdfUrl,      \* Invoice.pdfUrl, per invoice row (NULL or a stored location)
  store,       \* the stored PDF copy per invoice (0: none, n: the n-th rendering)
  open,        \* the request slots whose launched browser is still open
  renders,     \* PDF buffers rendered so far
  pdfSeq,      \* GET /invoices/:id/pdf requests received so far
  pdfReqs      \* those requests, per slot

VARIABLES
  NODE_ENV,        \* process.env.NODE_ENV
  ALLOW_DEV_AUTH,  \* process.env.ALLOW_DEV_AUTH
  users,           \* User rows, in createdAt order
  authReqs         \* the requests inside requireAuth, per slot

VARIABLES
  tables,      \* the ids of the rows of each resource table
  httpReqs     \* the requests inside a route handler, per slot

VARIABLES
  rrIn,        \* the analytics request just handled: its range input and `now`
  win,         \* the window resolveRange returned for it
  anStatus     \* the status of its response (0: no request yet)

VARIABLES
  raw          \* the last response of GET /invoices/:id/pdf/raw (status 0: none)

VARIABLES
  invRows,     \* committed Invoice rows with the order they belong to: [orderId]
  itemRows,    \* committed InvoiceItem rows: [invoiceId]
  linkSeq,     \* POST /invoices transactions opened so far
  linkReqs     \* those transactions, per slot

VARIABLES
  dashIn,      \* the dashboard request just handled: invoice rows and `today`
  dashOut      \* its growth figures (<<>>: no request yet)

ordVars == <<stock, orders, movements, deliveries, orderSeq, reqs>>
invVars == <<invoices, invReq>>
anVars == <<db, range, payload>>
pdfVars == <<hasS3, pdfUrl, store, open, renders, pdfSeq, pdfReqs>>
\* the state of the services next to the order, invoice and analytics tables
authVars == <<NODE_ENV, ALLOW_DEV_AUTH, users, authReqs>>
httpVars == <<tables, httpReqs>>
rrVars == <<rrIn, win, anStatus>>
linkVars == <<invRows, itemRows, linkSeq, linkReqs>>
dashVars == <<dashIn, dashOut>>
svcVars == <<pdfVars, authVars, httpVars, rrVars, linkVars, dashVars, raw>>
\* the order, invoice-balance, analytics, PDF, auth, route and range state
coreVars == <<ordVars, invVars, anVars, pdfVars, authVars, httpVars, rrVars, raw>>
vars == <<ordVars, invVars, anVars, svcVars>>
\* everything but the PDF pipeline
notPdf == <<ordVars, invVars, anVars, authVars, httpVars, rrVars, linkVars, dashVars, raw>>
\* everything but the auth middleware
notAuth == <<ordVars, invVars, anVars, pdfVars, httpVars, rrVars, linkVars, dashVars, raw>>
\* everything but the route handlers' requests and tables
notHttp == <<ordVars, invVars, anVars, pdfVars, authVars, rrVars, linkVars, dashVars, raw>>

\* ----------------------------------------------------------------- helpers
RECURSIVE SumSeq(_)
SumSeq(s) == IF s = <<>> THEN 0 ELSE Head(s) + SumSeq(Tail(s))

RECURSIVE QtyOf(_, _)
\* total quantity of product p in a sequence of items / signed change of p
\* in a sequence of movements
QtyOf(items, p) ==
  IF items = <<>> THEN 0
  ELSE (IF Head(items).productId = p THEN Head(items).quantity ELSE 0)
       + QtyOf(Tail(items), p)

RECURSIVE ChangeOf(_, _)
ChangeOf(ms, p) ==
  IF ms = <<>> THEN 0
  ELSE (IF Head(ms).productId = p THEN Head(ms).change ELSE 0)
       + ChangeOf(Tail(ms), p)

NoDelta == [p \in Products |-> 0]

\* Requests are anonymous: a new one takes the first idle slot.
FirstIdle(r) == reqs[r].pc = "idle" /\ \A q \in Slots : q < r => reqs[q].pc # "idle"

\* A request slot.  pc: "idle" | "create" | "status".  items is the parsed
\* body of POST /orders and k the loop's position in it; snap/snapItems are
\* the row PUT /orders/:id/status read; the w* fields are the write set of
\* the slot's open transaction.
IdleReq ==
  [pc |-> "idle", order |-> 0, arg |-> "PENDING",
   snap |-> "PENDING", snapItems |-> <<>>, items |-> <<>>, k |-> 1,
   wItems |-> <<>>, wStock |-> NoDelta, wMoves |-> <<>>, seen |-> 0]

\* request bodies of POST /orders: items with any product id and quantity
ItemInputs == [productId : ProductIds, quantity : 1..MaxQty]
ItemLists == UNION {[1..n -> ItemInputs] : n \in 1..MaxItems}

\* orderItemSchema: quantity is a positive integer
orderItemSchema(it) == it.quantity > 0
orderCreateSchema(items) ==
  Len(items) >= 1 /\ \A i \in 1..Len(items) : orderItemSchema(items[i])

\* ------------------------------------------------ POST /api/orders (create)
\* the rows one loop iteration writes for item `it` of order `id`
SaleMovement(id, it) ==
  [productId |-> it.productId, change |-> 0 - it.quantity, reason |-> "sale", order |-> id]

\* the transaction opens and tx.order.create draws the order's id
CreateBegin(r, items, st) ==
  /\ FirstIdle(r)
  /\ orderCreateSchema(items)
  /\ orderSeq < MaxOrders
  /\ orderSeq' = orderSeq + 1
  /\ reqs' = [reqs EXCEPT ![r] =
        [IdleReq EXCEPT !.pc = "create", !.order = orderSeq + 1,
                        !.arg = st, !.items = items]]
  /\ UNCHANGED <<stock, orders, movements, deliveries, invVars, anVars, svcVars>>

\* (faulty variant) an item asking for more than the stock is refused
ProductFound_InStock(it) ==
  it.productId \in Products /\ stock[it.productId] >= it.quantity

\* `tx.product.findUnique` / `if (!product) throw`: the only test an item
\* has to pass is that its product row exists; the stock is not looked at
ProductFound(it) == it.productId \in Products

\* one iteration of `for (const it of items)` whose product exists
CreateItem(r) ==
  /\ reqs[r].pc = "create"
  /\ reqs[r].k <= Len(reqs[r].items)
  /\ LET it == reqs[r].items[reqs[r].k] IN
       /\ ProductFound(it)
       /\ reqs' = [reqs EXCEPT ![r] =
            [@ EXCEPT !.k = @ + 1,
                      !.wItems = Append(@, it),
                      !.wStock = [@ EXCEPT ![it.productId] = @ - it.quantity],
                      !.wMoves = Append(@, SaleMovement(reqs[r].order, it))]]
  /\ UNCHANGED <<stock, orders, movements, deliveries, orderSeq, invVars, anVars, svcVars>>

\* (faulty variant) the writes made before the throw stay in the database
RolledBack_Kept(rows, writes) == writes

\* what a transaction whose callback threw leaves in the database: its write
\* set is rolled back
RolledBack(rows, writes) == rows

\* an iteration whose product does not exist: throw PRODUCT_NOT_FOUND, the
\* transaction rolls back, next(err) answers 500
CreateThrow(r) ==
  /\ reqs[r].pc = "create"
  /\ reqs[r].k <= Len(reqs[r].items)
  /\ ~ProductFound(reqs[r].items[reqs[r].k])
  /\ stock' = RolledBack(stock, [p \in Products |-> stock[p] + reqs[r].wStock[p]])
  /\ orders' = RolledBack(orders,
        orders @@ (reqs[r].order :> [status |-> reqs[r].arg, items |-> reqs[r].wItems]))
  /\ movements' = RolledBack(movements, movements \o reqs[r].wMoves)
  /\ reqs' = [reqs EXCEPT ![r] = IdleReq]
  /\ UNCHANGED <<deliveries, orderSeq, invVars, anVars, svcVars>>

\* the callback returns: order, items, decrements and movements commit together
CreateCommit(r) ==
  /\ reqs[r].pc = "create"
  /\ reqs[r].k > Len(reqs[r].items)
  /\ stock' = [p \in Products |-> stock[p] + reqs[r].wStock[p]]
  /\ orders' = orders @@
        (reqs[r].order :> [status |-> reqs[r].arg, items |-> reqs[r].wItems])
  /\ movements' = movements \o reqs[r].wMoves
  /\ reqs' = [reqs EXCEPT ![r] = IdleReq]
  /\ UNCHANGED <<deliveries, orderSeq, invVars, anVars, svcVars>>

\* ------------------------------------------- PUT /api/orders/:id/status
CancelMovement(id, it) ==
  [productId |-> it.productId, change |-> it.quantity, reason |-> "cancel", order |-> id]

\* `nextStatus === 'CANCELLED' && existing.status !== 'CANCELLED'`
ShouldRestock(nextStatus, existingStatus) ==
  nextStatus = "CANCELLED" /\ existingStatus # "CANCELLED"

RECURSIVE RestockMoves(_, _)
RestockMoves(id, items) ==
  IF items = <<>> THEN <<>>
  ELSE <<CancelMovement(id, Head(items))>> \o RestockMoves(id, Tail(items))

\* tx.order.findUnique finds no row: throw ORDER_NOT_FOUND, answered 500
StatusNotFound(r, id, nextStatus) ==
  /\ FirstIdle(r)
  /\ id \notin DOMAIN orders
  /\ UNCHANGED <<stock, orders, movements, deliveries, orderSeq, reqs, invVars, anVars, svcVars>>

\* tx.order.findUnique({ include: { items: true } }) reads the committed row
StatusBegin(r, id, nextStatus) ==
  /\ FirstIdle(r)
  /\ Len(movements) < MaxLedger
  /\ id \in DOMAIN orders
  /\ reqs' = [reqs EXCEPT ![r] =
        [IdleReq EXCEPT !.pc = "status", !.order = id, !.arg = nextStatus,
                        !.snap = orders[id].status,
                        !.snapItems = orders[id].items]]
  /\ UNCHANGED <<stock, orders, movements, deliveries, orderSeq, invVars, anVars, svcVars>>

\* the restock loop (decided on the row as read), the status update, commit
StatusCommit(r) ==
  /\ reqs[r].pc = "status"
  /\ LET id == reqs[r].order
         restock == ShouldRestock(reqs[r].arg, reqs[r].snap)
         its == IF restock THEN reqs[r].snapItems ELSE <<>>
     IN /\ stock' = [p \in Products |-> stock[p] + QtyOf(its, p)]
        /\ movements' = movements \o RestockMoves(id, its)
        /\ orders' = [orders EXCEPT ![id].status = reqs[r].arg]
  /\ reqs' = [reqs EXCEPT ![r] = IdleReq]
  /\ UNCHANGED <<deliveries, orderSeq, invVars, anVars, svcVars>>

\* ------------------------------------------- POST /api/products/:id/stock
\* bodies that pass the schema: change is any integer
AdjustChanges == (0 - MaxChange)..MaxChange

\* (faulty variant) the movement records the size of the change only
AdjustMovement_Unsigned(pid, change) ==
  [productId |-> pid, change |-> IF change < 0 THEN 0 - change ELSE change,
   reason |-> "adjust", order |-> 0]

\* tx.inventoryMovement.create({ data: { productId: p.id, change, reason, note } })
AdjustMovement(pid, change) ==
  [productId |-> pid, change |-> change, reason |-> "adjust", order |-> 0]

\* (faulty variant) the stock the statement computed is what the commit
\* leaves in the row
CommittedStock_WrittenBack(current, seen, change) == seen

\* `stock: { increment: change }` is a relative update: the commit leaves
\* the row's current value plus the change, whatever value the statement saw
CommittedStock(current, seen, change) == current + change

\* adjustments committed or in flight
Adjustments ==
  Cardinality({i \in 1..Len(movements) : movements[i].reason = "adjust"})
  + Cardinality({r \in Slots : reqs[r].pc \in {"adjust", "adjusted"}})

\* tx.product.update finds no product row: the transaction rolls back,
\* next(err) answers 500
AdjustNotFound(r, pid, change) ==
  /\ FirstIdle(r)
  /\ pid \notin Products
  /\ UNCHANGED <<stock, orders, movements, deliveries, orderSeq, reqs, invVars, anVars, svcVars>>

\* the transaction opens and tx.product.update increments the stock; the
\* slot keeps the product and the change in `items` and the updated row's
\* stock, which the response carries, in `seen`
AdjustBegin(r, pid, change) ==
  /\ FirstIdle(r)
  /\ pid \in Products
  /\ Adjustments < MaxAdjusts
  /\ reqs' = [reqs EXCEPT ![r] =
        [IdleReq EXCEPT !.pc = "adjust",
                        !.items = <<[productId |-> pid, quantity |-> change]>>,
                        !.wStock = [@ EXCEPT ![pid] = change],
                        !.seen = stock[pid] + change]]
  /\ UNCHANGED <<stock, orders, movements, deliveries, orderSeq, invVars, anVars, svcVars>>

\* tx.inventoryMovement.create
AdjustLog(r) ==
  /\ reqs[r].pc = "adjust"
  /\ reqs' = [reqs EXCEPT ![r] =
        [@ EXCEPT !.pc = "adjusted",
                  !.wMoves = <<AdjustMovement(reqs[r].items[1].productId,
                                              reqs[r].items[1].quantity)>>]]
  /\ UNCHANGED <<stock, orders, movements, deliveries, orderSeq, invVars, anVars, svcVars>>

\* the callback returns: the increment and the movement commit together
AdjustCommit(r) ==
  /\ reqs[r].pc = "adjusted"
  /\ LET pid == reqs[r].items[1].productId IN
       stock' = [stock EXCEPT ![pid] =
                   CommittedStock(stock[pid], reqs[r].seen, reqs[r].wStock[pid])]
  /\ movements' = movements \o reqs[r].wMoves
  /\ reqs' = [reqs EXCEPT ![r] = IdleReq]
  /\ UNCHANGED <<orders, deliveries, orderSeq, invVars, anVars, svcVars>>

\* ------------------------------------------------------ /api/deliveries
toPrismaStatus(s) ==
  CASE s = "scheduled" -> "SCHEDULED"
    [] s = "out_for_delivery" -> "OUT_FOR_DELIVERY"
    [] s = "delivered" -> "DELIVERED"
    [] s = "failed" -> "FAILED"

orderStatusMap(ps) ==
  CASE ps = "SCHEDULED" -> "SCHEDULED"
    [] ps = "OUT_FOR_DELIVERY" -> "OUT_FOR_DELIVERY"
    [] ps = "DELIVERED" -> "DELIVERED"
    [] ps = "FAILED" -> "PENDING"

\* POST /api/deliveries: 404 without the order; else the delivery row is
\* created SCHEDULED and a PENDING order becomes SCHEDULED
DeliveryCreate(orderId) ==
  /\ Cardinality(DOMAIN deliveries) < MaxDeliveries
  /\ IF orderId \notin DOMAIN orders
     THEN UNCHANGED <<orders, deliveries>>
     ELSE /\ deliveries' = deliveries @@
               ((Cardinality(DOMAIN deliveries) + 1) :>
                  [orderId |-> orderId, status |-> "SCHEDULED"])
          /\ orders' = IF orders[orderId].status = "PENDING"
                       THEN [orders EXCEPT ![orderId].status = "SCHEDULED"]
                       ELSE orders
  /\ UNCHANGED <<stock, movements, orderSeq, reqs, invVars, anVars, svcVars>>

\* PUT /api/deliveries/:id/status: 404 without the delivery; else the
\* delivery takes the status and its order the mapped one
DeliveryStatus(id, s) ==
  /\ IF id \notin DOMAIN deliveries
     THEN UNCHANGED <<orders, deliveries>>
     ELSE /\ deliveries' = [deliveries EXCEPT ![id].status = toPrismaStatus(s)]
          /\ orders' = [orders EXCEPT ![deliveries[id].orderId].status =
                           orderStatusMap(toPrismaStatus(s))]
  /\ UNCHANGED <<stock, movements, orderSeq, reqs, invVars, anVars, svcVars>>

\* PUT /api/deliveries/:id/status statement by statement.  The request's
\* slot holds the delivery id in `order` and the requested status in `arg`;
\* pc is "delivery" before tx.delivery.update, "mirror" before
\* tx.order.update and "mirrored" before the commit.
\* prisma.delivery.findUnique finds the row, the transaction opens
DeliveryStatusBegin(r, id, s) ==
  /\ FirstIdle(r)
  /\ id \in DOMAIN deliveries
  /\ reqs' = [reqs EXCEPT ![r] = [IdleReq EXCEPT !.pc = "delivery", !.order = id, !.arg = s]]
  /\ UNCHANGED <<stock, orders, movements, deliveries, orderSeq, invVars, anVars, svcVars>>

\* tx.delivery.update, then tx.order.update: each goes to the write set
DeliveryStatusWrite(r) ==
  /\ reqs[r].pc \in {"delivery", "mirror"}
  /\ reqs' = [reqs EXCEPT ![r].pc = IF reqs[r].pc = "delivery" THEN "mirror" ELSE "mirrored"]
  /\ UNCHANGED <<stock, orders, movements, deliveries, orderSeq, invVars, anVars, svcVars>>

\* one of the two updates rejects (the database fails): the transaction
\* rolls back, next(err) answers 500
DeliveryStatusThrow(r) ==
  /\ reqs[r].pc \in {"delivery", "mirror"}
  /\ deliveries' = RolledBack(deliveries,
        IF reqs[r].pc = "mirror"
        THEN [deliveries EXCEPT ![reqs[r].order].status = toPrismaStatus(reqs[r].arg)]
        ELSE deliveries)
  /\ reqs' = [reqs EXCEPT ![r] = IdleReq]
  /\ UNCHANGED <<stock, orders, movements, orderSeq, invVars, anVars, svcVars>>

\* the callback returns: both updates commit together, res.json
DeliveryStatusCommit(r) ==
  /\ reqs[r].pc = "mirrored"
  /\ deliveries' = [deliveries EXCEPT ![reqs[r].order].status = toPrismaStatus(reqs[r].arg)]
  /\ orders' = [orders EXCEPT ![deliveries[reqs[r].order].orderId].status =
                   orderStatusMap(toPrismaStatus(reqs[r].arg))]
  /\ reqs' = [reqs EXCEPT ![r] = IdleReq]
  /\ UNCHANGED <<stock, movements, orderSeq, invVars, anVars, svcVars>>

\* --------------------------------------------------------- /api/invoices
\* a nullable DECIMAL column: <<>> is NULL, <<n>> the value n
NULL == <<>>
\* Number(x ?? 0)
NumberOr0(x) == IF x = NULL THEN 0 ELSE x[1]
Max(a, b) == IF a >= b THEN a ELSE b

InvoiceStatusEnum == {"PENDING", "PAID", "OVERDUE", "CANCELLED"}

\* bodies of POST /invoices that pass CreateSchema: qty a positive integer,
\* price, tax and discount non-negative
InvItemInputs == [qty : 1..MaxInvQty, price : 0..MaxPrice]
InvItemLists == UNION {[1..n -> InvItemInputs] : n \in 1..MaxInvItems}

RECURSIVE Subtotal(_)
\* items.reduce((s, i) => s + i.qty * i.price, 0)
Subtotal(items) ==
  IF items = <<>> THEN 0
  ELSE Subtotal(SubSeq(items, 1, Len(items) - 1))
       + items[Len(items)].qty * items[Len(items)].price

\* the Invoice row tx.invoice.create writes
NewInvoice(items, tax, discount) ==
  LET subtotal == Subtotal(items)
      total == subtotal + tax - discount
  IN [total |-> total, paidAmount |-> NULL, balance |-> total, status |-> "PENDING"]

\* POST /api/invoices
InvoiceCreate(items, tax, discount) ==
  /\ invReq.pc = "idle"
  /\ Len(invoices) < MaxInvoices
  /\ invoices' = Append(invoices, NewInvoice(items, tax, discount))
  /\ UNCHANGED <<invReq, ordVars, anVars, svcVars>>

IdleInvReq == [pc |-> "idle", id |-> 0, status |-> "PENDING", paid |-> NULL, inv |-> NULL]

\* PUT /api/invoices/:id/status, 404: findUnique finds no row
InvoiceStatusNotFound(id, st, paid) ==
  /\ invReq.pc = "idle"
  /\ id \notin DOMAIN invoices
  /\ UNCHANGED <<invoices, invReq, ordVars, anVars, svcVars>>

\* PUT /api/invoices/:id/status: prisma.invoice.findUnique reads the row
InvoiceStatusRead(id, st, paid) ==
  /\ invReq.pc = "idle"
  /\ id \in DOMAIN invoices
  /\ invReq' = [pc |-> "update", id |-> id, status |-> st, paid |-> paid,
                inv |-> <<invoices[id]>>]
  /\ UNCHANGED <<invoices, ordVars, anVars, svcVars>>

\* `parsed.data.paidAmount ?? Number(inv.paidAmount ?? 0)`
PaidAmount(given, inv) == IF given # NULL THEN given[1] ELSE NumberOr0(inv.paidAmount)

\* (faulty variant) the balance is not clamped at zero
NewBalance_Unclamped(total, paidAmount) == total - paidAmount

\* `Math.max(0, Number(inv.total) - paidAmount)`
NewBalance(total, paidAmount) == Max(0, total - paidAmount)

\* prisma.invoice.update({ data: { status, paidAmount, balance } })
InvoiceStatusUpdate ==
  /\ invReq.pc = "update"
  /\ LET inv == invReq.inv[1]
         paidAmount == PaidAmount(invReq.paid, inv)
         balance == NewBalance(inv.total, paidAmount)
     IN invoices' = [invoices EXCEPT ![invReq.id] =
            [@ EXCEPT !.status = invReq.status, !.paidAmount = <<paidAmount>>,
                      !.balance = balance]]
  /\ invReq' = IdleInvReq
  /\ UNCHANGED <<ordVars, anVars, svcVars>>

InvInit == invoices = <<>> /\ invReq = IdleInvReq
InvIdle == InvInit

\* the statuses the modelled status updates carry
InvStatusInputs == {"PAID", "CANCELLED"}
PaidInputs == {NULL} \cup {<<n>> : n \in 0..MaxPaid}

InvNext ==
  \/ \E items \in InvItemLists, tax \in 0..MaxTax, discount \in 0..MaxDiscount :
       InvoiceCreate(items, tax, discount)
  \/ \E id \in 1..(MaxInvoices + 1), st \in InvStatusInputs, paid \in PaidInputs :
       InvoiceStatusNotFound(id, st, paid)
  \/ \E id \in 1..(MaxInvoices + 1), st \in InvStatusInputs, paid \in PaidInputs :
       InvoiceStatusRead(id, st, paid)
  \/ InvoiceStatusUpdate

\* ------------------------------------------------------- /api/analytics
\* Time is counted in ticks, TicksPerDay to a calendar day; an amount of
\* money divided by a count is kept as an exact fraction [num, den].
Day(t) == t \div TicksPerDay
\* dayjs startOf('day'), endOf('day'), add(n, 'day')
startOfDay(t) == Day(t) * TicksPerDay
endOfDay(t) == Day(t) * TicksPerDay + (TicksPerDay - 1)
addDays(t, n) == t + n * TicksPerDay

Ratio(n, d) == [num |-> n, den |-> d]
\* the number 0
Zero == Ratio(0, 1)

INVOICE_STATUSES_FOR_REVENUE == {"PAID", "PENDING", "OVERDUE"}

RECURSIVE SumTotal(_)
\* invoices.reduce((s, r) => s + Number(r.total ?? 0), 0)
SumTotal(rows) ==
  IF rows = <<>> THEN 0
  ELSE SumTotal(SubSeq(rows, 1, Len(rows) - 1)) + rows[Len(rows)].total

\* where: { createdAt: { gte, lte } }
Between(t, gte, lte) == t >= gte /\ t <= lte

\* the three findMany queries of buildAnalytics
OrdersIn(d, s, e) == SelectSeq(d.orders, LAMBDA o : Between(o.createdAt, s, e))
InvoicesIn(d, s, e) ==
  SelectSeq(d.invoices, LAMBDA r : /\ Between(r.createdAt, s, e)
                                   /\ r.status \in INVOICE_STATUSES_FOR_REVENUE)
ItemsIn(d, s, e) ==
  SelectSeq(d.items, LAMBDA it :
    \E i \in 1..Len(d.orders) :
      d.orders[i].id = it.orderId /\ Between(d.orders[i].createdAt, s, e))

RECURSIVE rangeDays_BeforeEndDay(_, _)
\* (faulty variant) the loop stops before the day of `end`
rangeDays_BeforeEndDay(cur, end) ==
  IF cur < startOfDay(end)
  THEN <<cur>> \o rangeDays_BeforeEndDay(addDays(cur, 1), end)
  ELSE <<>>

RECURSIVE rangeDays(_, _)
\* the days from cur while `cur.isBefore(end) || cur.isSame(end, 'day')`
rangeDays(cur, end) ==
  IF cur < end \/ Day(cur) = Day(end)
  THEN <<cur>> \o rangeDays(addDays(cur, 1), end)
  ELSE <<>>

\* (faulty variant) the division is not guarded
Aov_Unguarded(revenueSum, ordersCount) == Ratio(revenueSum, ordersCount)

\* `ordersCount ? revenueSum / ordersCount : 0`
Aov(revenueSum, ordersCount) ==
  IF ordersCount # 0 THEN Ratio(revenueSum, ordersCount) ELSE Zero

\* `prev > 0 ? ((cur - prev) / prev) * 100 : 0`
GrowthPct(cur, prev) ==
  IF prev > 0 THEN Ratio((cur - prev) * 100, prev) ELSE Zero

\* `dayjs(createdAt).format('YYYY-MM-DD')`
BucketKey(t) == Day(t)

\* one entry of the time series: the rows whose key is the day's key
TimeseriesEntry(d, ords, invs) ==
  LET key == BucketKey(d)
      os == SelectSeq(ords, LAMBDA o : BucketKey(o.createdAt) = key)
  IN [day |-> key,
      revenue |-> SumTotal(SelectSeq(invs, LAMBDA r : BucketKey(r.createdAt) = key)),
      orders |-> Len(os),
      customers |-> Cardinality({os[i].customerId : i \in 1..Len(os)})]

RECURSIVE InsertDesc(_, _)
\* x placed after every entry whose revenue is not smaller (a stable sort)
InsertDesc(sorted, x) ==
  IF sorted = <<>> THEN <<x>>
  ELSE IF Head(sorted).revenue >= x.revenue
       THEN <<Head(sorted)>> \o InsertDesc(Tail(sorted), x)
       ELSE <<x>> \o sorted

RECURSIVE SortDesc(_)
\* `.sort((a, b) => b.revenue - a.revenue)`
SortDesc(entries) ==
  IF entries = <<>> THEN <<>>
  ELSE InsertDesc(SortDesc(SubSeq(entries, 1, Len(entries) - 1)), entries[Len(entries)])

\* `.slice(0, n)`
Slice(entries, n) == SubSeq(entries, 1, IF Len(entries) < n THEN Len(entries) ELSE n)

RECURSIVE KeysInOrder(_, _)
\* the keys of a Map / object in insertion order: first appearances
KeysInOrder(keys, seen) ==
  IF keys = <<>> THEN <<>>
  ELSE IF Head(keys) \in seen THEN KeysInOrder(Tail(keys), seen)
       ELSE <<Head(keys)>> \o KeysInOrder(Tail(keys), seen \cup {Head(keys)})

RECURSIVE SumRevenue(_)
SumRevenue(items) ==
  IF items = <<>> THEN 0
  ELSE SumRevenue(SubSeq(items, 1, Len(items) - 1))
       + items[Len(items)].unitPrice * items[Len(items)].quantity

RECURSIVE SumQuantity(_)
SumQuantity(items) ==
  IF items = <<>> THEN 0
  ELSE SumQuantity(SubSeq(items, 1, Len(items) - 1)) + items[Len(items)].quantity

\* prodAgg: one entry per product of the window's items
ProdAgg(items) ==
  LET keys == KeysInOrder([i \in 1..Len(items) |-> items[i].productId], {})
  IN [k \in 1..Len(keys) |->
        LET mine == SelectSeq(items, LAMBDA it : it.productId = keys[k])
        IN [name |-> keys[k], quantity |-> SumQuantity(mine), revenue |-> SumRevenue(mine)]]

\* (faulty variant) the list is cut before it is sorted
TopOf_CutFirst(entries) == SortDesc(Slice(entries, TopN))

\* `.sort((a, b) => b.revenue - a.revenue).slice(0, 10)`
TopOf(entries) == Slice(SortDesc(entries), TopN)

\* invByCustomer joined with ordersByCustomer
CustAgg(invs, ords) ==
  LET keys == KeysInOrder([i \in 1..Len(invs) |-> invs[i].customerId], {})
  IN [k \in 1..Len(keys) |->
        [name |-> keys[k],
         orders |-> Len(SelectSeq(ords, LAMBDA o : o.customerId = keys[k])),
         revenue |-> SumTotal(SelectSeq(invs, LAMBDA r : r.customerId = keys[k]))]]

\* Order.routeCode as the channel grouping reads it: null, or a string that
\* is blank, a code, or a code with blanks around it
RouteCodes == {NULL, <<" ">>, <<"R1">>, <<" R1 ">>, <<"R2">>}
\* String.prototype.trim on those strings
trim(str) == CASE str = " " -> "" [] str = " R1 " -> "R1" [] OTHER -> str

\* (faulty variant) the route code is not trimmed
channelOf_Untrimmed(o) == IF o.routeCode = NULL THEN "Unassigned" ELSE o.routeCode[1]

\* `o.routeCode?.trim() || 'Unassigned'`
channelOf(o) ==
  IF o.routeCode = NULL THEN "Unassigned"
  ELSE IF trim(o.routeCode[1]) = "" THEN "Unassigned" ELSE trim(o.routeCode[1])

\* `revenueByOrderId.get(o.id) || 0`: the totals of the invoices of order id
revenueByOrderId(invs, id) == SumTotal(SelectSeq(invs, LAMBDA r : r.orderId = <<id>>))

RECURSIVE ChannelRevenue(_, _)
\* `entry.revenue += revenueByOrderId.get(o.id) || 0` over the orders
ChannelRevenue(ords, invs) ==
  IF ords = <<>> THEN 0
  ELSE ChannelRevenue(SubSeq(ords, 1, Len(ords) - 1), invs)
       + revenueByOrderId(invs, ords[Len(ords)].id)

RECURSIVE InsertByOrders(_, _)
InsertByOrders(sorted, x) ==
  IF sorted = <<>> THEN <<x>>
  ELSE IF Head(sorted).orders >= x.orders
       THEN <<Head(sorted)>> \o InsertByOrders(Tail(sorted), x)
       ELSE <<x>> \o sorted

RECURSIVE SortByOrders(_)
\* `.sort((a, b) => b.orders - a.orders)`
SortByOrders(entries) ==
  IF entries = <<>> THEN <<>>
  ELSE InsertByOrders(SortByOrders(SubSeq(entries, 1, Len(entries) - 1)), entries[Len(entries)])

\* channelAgg: one entry per channel of the window's orders
Channels(ords, invs) ==
  LET keys == KeysInOrder([i \in 1..Len(ords) |-> channelOf(ords[i])], {})
  IN SortByOrders([k \in 1..Len(keys) |->
        LET mine == SelectSeq(ords, LAMBDA o : channelOf(o) = keys[k])
        IN [channel |-> keys[k], orders |-> Len(mine), revenue |-> ChannelRevenue(mine, invs)]])

\* `end.startOf('day').diff(start.startOf('day'), 'day') + 1`
daysInRange(start, end) == Day(startOfDay(end)) - Day(startOfDay(start)) + 1
\* `start.subtract(daysInRange, 'day')`, queried from its startOf('day')
prevStart(start, end) == startOfDay(addDays(start, 0 - daysInRange(start, end)))

\* (faulty variant) the comparison window runs through the window's first day
prevEnd_FirstDay(start) == endOfDay(start)

\* `start.subtract(1, 'day')`, queried up to its endOf('day')
prevEnd(start) == endOfDay(addDays(start, 0 - 1))

\* buildAnalytics(start, end) on the tables d
buildAnalytics(d, start, end) ==
  LET ords == OrdersIn(d, start, end)
      invs == InvoicesIn(d, start, end)
      items == ItemsIn(d, start, end)
      ordersCount == Len(ords)
      revenueSum == SumTotal(invs)
      uniqueCustomers == Cardinality({ords[i].customerId : i \in 1..Len(ords)})
      prevRevenue == SumTotal(InvoicesIn(d, prevStart(start, end), prevEnd(start)))
      prevOrdersCount == Len(OrdersIn(d, prevStart(start, end), prevEnd(start)))
      days == rangeDays(startOfDay(start), end)
  IN [kpis |-> [revenue |-> revenueSum,
                orders |-> ordersCount,
                customers |-> uniqueCustomers,
                aov |-> Aov(revenueSum, ordersCount),
                growthRevenuePct |-> GrowthPct(revenueSum, prevRevenue),
                growthOrdersPct |-> GrowthPct(ordersCount, prevOrdersCount)],
      timeseries |-> [i \in 1..Len(days) |-> TimeseriesEntry(days[i], ords, invs)],
      topProducts |-> TopOf(ProdAgg(items)),
      topCustomers |-> TopOf(CustAgg(invs, ords)),
      channels |-> Channels(ords, invs)]

EmptyDb == [orders |-> <<>>, invoices |-> <<>>, items |-> <<>>]
AnInit == db = EmptyDb /\ range = <<>> /\ payload = <<>>
AnIdle == AnInit

\* rows are inserted in the order of their createdAt
LastAt(rows) == IF rows = <<>> THEN 0 ELSE rows[Len(rows)].createdAt
RowCount == Len(db.orders) + Len(db.invoices)
\* the instants the modelled rows are created at: the first and the last
\* tick of a day
Instants == UNION {{startOfDay(dd * TicksPerDay), endOfDay(dd * TicksPerDay)} : dd \in 0..MaxDay}

\* an Order row appears (POST /orders at instant t)
AddOrder(t, cid) ==
  /\ RowCount < MaxRows
  /\ t >= LastAt(db.orders)
  /\ db' = [db EXCEPT !.orders = Append(@,
        [id |-> Len(db.orders) + 1, createdAt |-> t, customerId |-> cid,
         routeCode |-> NULL])]
  /\ range' = <<>> /\ payload' = <<>>
  /\ UNCHANGED <<ordVars, invVars, svcVars>>

\* an Invoice row appears (POST /invoices at instant t, and its status)
AddInvoice(t, total, st, cid) ==
  /\ RowCount < MaxRows
  /\ t >= LastAt(db.invoices)
  /\ db' = [db EXCEPT !.invoices = Append(@,
        [createdAt |-> t, total |-> total, status |-> st, customerId |-> cid,
         orderId |-> NULL])]
  /\ range' = <<>> /\ payload' = <<>>
  /\ UNCHANGED <<ordVars, invVars, svcVars>>

\* a sale at instant 0: an order of a new customer for a new product, its
\* item and its invoice
AddSale(qty, price) ==
  /\ Len(db.orders) < MaxSales
  /\ LET n == Len(db.orders) + 1 IN
       db' = [orders |-> Append(db.orders, [id |-> n, createdAt |-> 0, customerId |-> n,
                                            routeCode |-> NULL]),
              items |-> Append(db.items,
                 [orderId |-> n, productId |-> n, quantity |-> qty, unitPrice |-> price]),
              invoices |-> Append(db.invoices,
                 [createdAt |-> 0, total |-> qty * price, status |-> "PENDING", customerId |-> n,
                  orderId |-> <<n>>])]
  /\ range' = <<>> /\ payload' = <<>>
  /\ UNCHANGED <<ordVars, invVars, svcVars>>

\* a second item of the first order, for the same product
AddItem(qty, price) ==
  /\ Len(db.orders) = 1
  /\ Len(db.items) = 1
  /\ db' = [db EXCEPT !.items = Append(@,
        [orderId |-> Len(db.orders), productId |-> 1, quantity |-> qty, unitPrice |-> price])]
  /\ range' = <<>> /\ payload' = <<>>
  /\ UNCHANGED <<ordVars, invVars, svcVars>>

\* GET/POST /api/analytics with the window resolved to [start of day s,
\* end of day e]
Analyze(s, e) ==
  /\ range' = [start |-> startOfDay(s * TicksPerDay), end |-> endOfDay(e * TicksPerDay)]
  /\ payload' = <<buildAnalytics(db, range'.start, range'.end)>>
  /\ UNCHANGED <<db, ordVars, invVars, svcVars>>

AnNext ==
  \/ \E t \in Instants : AddOrder(t, "c1")
  \/ \E t \in Instants, total \in 1..MaxTotal, st \in {"PAID", "CANCELLED"} :
       AddInvoice(t, total, st, "c1")
  \/ \E s \in 0..MaxDay, e \in 0..MaxDay : Analyze(s, e)

\* The order and invoice tables as the channel grouping reads them: orders
\* created on day 0 or day 1 with any route code, invoices of any status for
\* one of the orders or for none, at most one invoice per order.
ChanOrders == [createdAt : {0, TicksPerDay}, customerId : {"c1"}, routeCode : RouteCodes]
ChanInvoices ==
  [createdAt : {0, TicksPerDay}, total : 1..MaxTotal, status : {"PAID", "CANCELLED"},
   customerId : {"c1"}, orderId : {NULL} \cup {<<i>> : i \in 1..MaxChanRows}]
ChanInit ==
  /\ \E os \in UNION {[1..n -> ChanOrders] : n \in 0..MaxChanRows},
        is \in UNION {[1..n -> ChanInvoices] : n \in 0..MaxChanRows} :
       /\ \A i, j \in DOMAIN is : (i # j /\ is[i].orderId # NULL) => is[i].orderId # is[j].orderId
       /\ \A i \in DOMAIN is : is[i].orderId # NULL => is[i].orderId[1] \in DOMAIN os
       /\ db = [orders |-> [i \in DOMAIN os |->
                              [id |-> i, createdAt |-> os[i].createdAt,
                               customerId |-> os[i].customerId, routeCode |-> os[i].routeCode]],
                invoices |-> is, items |-> <<>>]
  /\ range = <<>>
  /\ payload = <<>>

\* one analytics request over those tables
ChanNext == \E s \in 0..1, e \in 0..1 : payload = <<>> /\ Analyze(s, e)

TopNext ==
  \/ \E qty \in 1..2 : AddSale(qty, 1)
  \/ AddItem(1, 1)
  \/ Analyze(0, 0)

\* ------------------------------------------------ process environment
\* (middleware/auth.ts and routes/invoices.ts compute the same two flags)
\* process.env.NODE_ENV and process.env.ALLOW_DEV_AUTH ("" is unset)
NodeEnvs == {"production", "development"}
AllowDevAuths == {"", "true", "TRUE", "false"}
toLowerCase(s) == IF s = "TRUE" THEN "true" ELSE s

isDev == NODE_ENV # "production"
\* (faulty variant) any non-empty ALLOW_DEV_AUTH enables the bypass
allowDevBypass_Truthy == isDev \/ ALLOW_DEV_AUTH # ""
\* `isDev || String(process.env.ALLOW_DEV_AUTH || '').toLowerCase() === 'true'`
allowDevBypass == isDev \/ toLowerCase(ALLOW_DEV_AUTH) = "true"

\* ------------------------------------------- GET /api/invoices/:id/pdf
\* Invoice rows the PDF route can be asked for, and the ids a request may
\* name ("ix" names no invoice row).  No route deletes an invoice.
PdfInvoices == {"i1"}
PdfInvoiceIds == PdfInvoices \cup {"ix"}

\* the two locations pdfUrl can hold: up.Location of an S3 upload, and
\* localPdfUrl(id) = `/api/invoices/:id/pdf/raw`
S3Location == <<"s3">>
localPdfUrl == <<"local">>

\* signS3Url: null without S3, null when `new URL(location)` throws (the
\* relative local URL), else a signed URL
signS3Url(location) ==
  IF ~hasS3 THEN NULL
  ELSE IF location = S3Location THEN <<"signed">> ELSE NULL

\* the responses of the route
NoResp == [status |-> 0, body |-> ""]
PdfOk == [status |-> 200, body |-> "url"]
\* (faulty variant) a missing invoice is answered like any other failure
PdfNotFound_Generic == [status |-> 500, body |-> "Failed to generate invoice PDF"]
\* `if (!inv) return res.status(404).json({ error: 'Not found' })`
PdfNotFound == [status |-> 404, body |-> "Not found"]
\* the catch block: `res.status(500).json({ error: 'Failed to generate invoice PDF' })`
PdfCatch == [status |-> 500, body |-> "Failed to generate invoice PDF"]

\* A request slot of the route.  pc is the await the request is at; url is
\* inv.pdfUrl as findUnique read it; buf the rendering renderInvoicePDF
\* returned (0: none); threw tells that the render's try block threw and the
\* exception is pending behind `finally`; resp is the response sent.  The
\* remaining fields record what the request did: the step that failed, the
\* browsers it launched, the uploads / file writes it attempted, and whether
\* it stored its rendering.
IdlePdfReq ==
  [pc |-> "idle", id |-> "ix", url |-> NULL, buf |-> 0, threw |-> FALSE,
   resp |-> NoResp, fail |-> "none", launches |-> 0, stores |-> 0, stored |-> FALSE]

PdfFirstIdle(r) ==
  pdfReqs[r].pc = "idle" /\ \A q \in Slots : q < r => pdfReqs[q].pc # "idle"

\* the request is answered: the slot is idle again and keeps the response
Answered(q, resp) == [q EXCEPT !.pc = "idle", !.resp = resp]

\* the request arrives (authenticated) and awaits prisma.invoice.findUnique
PdfBegin(r, id) ==
  /\ PdfFirstIdle(r)
  /\ pdfSeq < MaxPdfRequests
  /\ pdfSeq' = pdfSeq + 1
  /\ pdfReqs' = [pdfReqs EXCEPT ![r] = [IdlePdfReq EXCEPT !.pc = "find", !.id = id]]
  /\ UNCHANGED <<hasS3, pdfUrl, store, open, renders, notPdf>>

\* findUnique finds no row: 404
PdfMissing(r) ==
  /\ pdfReqs[r].pc = "find"
  /\ pdfReqs[r].id \notin PdfInvoices
  /\ pdfReqs' = [pdfReqs EXCEPT ![r] = Answered([@ EXCEPT !.fail = "missing"], PdfNotFound)]
  /\ UNCHANGED <<hasS3, pdfUrl, store, open, renders, pdfSeq, notPdf>>

\* (faulty variant) the stored URL is handed back in local mode too
CachedOnS3_AnyMode(url) == url # NULL

\* `if (hasS3 && inv.pdfUrl)` and `if (signed)`: the invoice has a stored
\* copy on S3 whose location signs
CachedOnS3(url) == hasS3 /\ url # NULL /\ signS3Url(url) # NULL

\* the row is found and already on S3: a fresh signed URL is handed back
PdfShortcut(r) ==
  /\ pdfReqs[r].pc = "find"
  /\ pdfReqs[r].id \in PdfInvoices
  /\ CachedOnS3(pdfUrl[pdfReqs[r].id])
  /\ pdfReqs' = [pdfReqs EXCEPT ![r] =
        Answered([@ EXCEPT !.url = pdfUrl[pdfReqs[r].id]], PdfOk)]
  /\ UNCHANGED <<hasS3, pdfUrl, store, open, renders, pdfSeq, notPdf>>

\* the row is found and the PDF is to be generated
PdfFound(r) ==
  /\ pdfReqs[r].pc = "find"
  /\ pdfReqs[r].id \in PdfInvoices
  /\ ~CachedOnS3(pdfUrl[pdfReqs[r].id])
  /\ pdfReqs' = [pdfReqs EXCEPT ![r] =
        [@ EXCEPT !.pc = "items", !.url = pdfUrl[pdfReqs[r].id]]]
  /\ UNCHANGED <<hasS3, pdfUrl, store, open, renders, pdfSeq, notPdf>>

\* prisma.invoiceItem.findMany, then buildInvoiceHtml (customer lookup)
PdfItems(r) ==
  /\ pdfReqs[r].pc = "items"
  /\ pdfReqs' = [pdfReqs EXCEPT ![r].pc = "html"]
  /\ UNCHANGED <<hasS3, pdfUrl, store, open, renders, pdfSeq, notPdf>>

PdfHtml(r) ==
  /\ pdfReqs[r].pc = "html"
  /\ pdfReqs' = [pdfReqs EXCEPT ![r].pc = "launch"]
  /\ UNCHANGED <<hasS3, pdfUrl, store, open, renders, pdfSeq, notPdf>>

\* ---- renderInvoicePDF (services/pdf.ts)
\* (faulty variant) pdfUrl is written without the rendering being stored
Persist_UrlOnly == IF hasS3 THEN "updateS3" ELSE "updateLocal"

\* what follows the rendering: `if (hasS3) { uploadToS3 ... }`, else
\* ensureLocalDir and fs.writeFile; the row is updated after either
Persist == IF hasS3 THEN "upload" ELSE "mkdir"

\* puppeteer.launch resolves: a browser process is running
PdfLaunch(r) ==
  /\ pdfReqs[r].pc = "launch"
  /\ open' = open \cup {r}
  /\ pdfReqs' = [pdfReqs EXCEPT ![r] = [@ EXCEPT !.pc = "newPage", !.launches = @ + 1]]
  /\ UNCHANGED <<hasS3, pdfUrl, store, renders, pdfSeq, notPdf>>

\* the awaits of the try block, in order
RenderPcs == {"newPage", "setContent", "emulateMediaType", "pdf"}
AfterRender(pc) ==
  CASE pc = "newPage" -> "setContent"
    [] pc = "setContent" -> "emulateMediaType"
    [] pc = "emulateMediaType" -> "pdf"
    [] pc = "pdf" -> "close"

\* browser.newPage, page.setContent, page.emulateMediaType or page.pdf
\* resolves; page.pdf yields a new buffer
RenderStep(r) ==
  /\ pdfReqs[r].pc \in RenderPcs
  /\ renders' = IF pdfReqs[r].pc = "pdf" THEN renders + 1 ELSE renders
  /\ pdfReqs' = [pdfReqs EXCEPT ![r] =
        [@ EXCEPT !.pc = AfterRender(@), !.buf = IF pdfReqs[r].pc = "pdf" THEN renders + 1 ELSE 0]]
  /\ UNCHANGED <<hasS3, pdfUrl, store, open, pdfSeq, notPdf>>

\* (faulty variant) without try/finally a throw leaves the function at once
Thrown_NoFinally(q) == [q EXCEPT !.pc = "catch", !.threw = TRUE, !.fail = "render"]

\* one of those awaits rejects: control goes to the `finally` block with the
\* exception pending
Thrown(q) == [q EXCEPT !.pc = "close", !.threw = TRUE, !.fail = "render"]

RenderThrow(r) ==
  /\ pdfReqs[r].pc \in RenderPcs
  /\ pdfReqs' = [pdfReqs EXCEPT ![r] = Thrown(@)]
  /\ UNCHANGED <<hasS3, pdfUrl, store, open, renders, pdfSeq, notPdf>>

\* `finally { await browser.close() }`, then the buffer is returned or the
\* pending exception propagates to the route's catch
PdfClose(r) ==
  /\ pdfReqs[r].pc = "close"
  /\ open' = open \ {r}
  /\ pdfReqs' = [pdfReqs EXCEPT ![r] =
        [@ EXCEPT !.pc = IF pdfReqs[r].threw THEN "catch" ELSE Persist]]
  /\ UNCHANGED <<hasS3, pdfUrl, store, renders, pdfSeq, notPdf>>

\* ---- storing the rendering
\* uploadToS3 resolves: the object under the invoice's key is replaced
PdfUpload(r) ==
  /\ pdfReqs[r].pc = "upload"
  /\ store' = [store EXCEPT ![pdfReqs[r].id] = pdfReqs[r].buf]
  /\ pdfReqs' = [pdfReqs EXCEPT ![r] =
        [@ EXCEPT !.pc = "updateS3", !.stores = @ + 1, !.stored = TRUE]]
  /\ UNCHANGED <<hasS3, pdfUrl, open, renders, pdfSeq, notPdf>>

\* prisma.invoice.update({ pdfUrl: location })
PdfUpdateS3(r) ==
  /\ pdfReqs[r].pc = "updateS3"
  /\ pdfUrl' = [pdfUrl EXCEPT ![pdfReqs[r].id] = S3Location]
  /\ pdfReqs' = [pdfReqs EXCEPT ![r].pc = "sign"]
  /\ UNCHANGED <<hasS3, store, open, renders, pdfSeq, notPdf>>

\* signS3Url(location); `if (!signed) throw`; res.json({ url: signed })
PdfSign(r) ==
  /\ pdfReqs[r].pc = "sign"
  /\ pdfReqs' = [pdfReqs EXCEPT ![r] =
        IF signS3Url(S3Location) # NULL THEN Answered(@, PdfOk)
        ELSE [@ EXCEPT !.pc = "catch", !.fail = "sign"]]
  /\ UNCHANGED <<hasS3, pdfUrl, store, open, renders, pdfSeq, notPdf>>

\* ensureLocalDir resolves
PdfMkdir(r) ==
  /\ pdfReqs[r].pc = "mkdir"
  /\ pdfReqs' = [pdfReqs EXCEPT ![r].pc = "write"]
  /\ UNCHANGED <<hasS3, pdfUrl, store, open, renders, pdfSeq, notPdf>>

\* fs.writeFile(outPath, pdfBuffer) resolves: the file is replaced
PdfWrite(r) ==
  /\ pdfReqs[r].pc = "write"
  /\ store' = [store EXCEPT ![pdfReqs[r].id] = pdfReqs[r].buf]
  /\ pdfReqs' = [pdfReqs EXCEPT ![r] =
        [@ EXCEPT !.pc = "updateLocal", !.stores = @ + 1, !.stored = TRUE]]
  /\ UNCHANGED <<hasS3, pdfUrl, open, renders, pdfSeq, notPdf>>

\* `if (inv.pdfUrl !== relUrl) await prisma.invoice.update(...)`, then
\* res.json({ url: absUrl })
PdfUpdateLocal(r) ==
  /\ pdfReqs[r].pc = "updateLocal"
  /\ pdfUrl' = IF pdfReqs[r].url # localPdfUrl
               THEN [pdfUrl EXCEPT ![pdfReqs[r].id] = localPdfUrl]
               ELSE pdfUrl
  /\ pdfReqs' = [pdfReqs EXCEPT ![r] = Answered(@, PdfOk)]
  /\ UNCHANGED <<hasS3, store, open, renders, pdfSeq, notPdf>>

\* ---- failures
\* the awaits outside the render's try block that can reject, and what
\* rejects there
ThrowPcs == {"find", "items", "html", "launch", "upload", "updateS3", "mkdir", "write", "updateLocal"}
FailKind(pc) ==
  CASE pc \in {"find", "items", "html", "updateS3", "updateLocal"} -> "db"
    [] pc = "launch" -> "render"
    [] pc \in {"upload", "mkdir", "write"} -> "upload"

\* one of them rejects: control goes to the route's catch.  (At
\* "updateLocal" there is an await only when the row is updated.)
PdfThrow(r) ==
  /\ pdfReqs[r].pc \in ThrowPcs
  /\ pdfReqs[r].pc = "updateLocal" => pdfReqs[r].url # localPdfUrl
  /\ pdfReqs' = [pdfReqs EXCEPT ![r] = [@ EXCEPT !.pc = "catch", !.fail = FailKind(pdfReqs[r].pc)]]
  /\ UNCHANGED <<hasS3, pdfUrl, store, open, renders, pdfSeq, notPdf>>

\* `catch (err) { ...; return res.status(500).json(...) }`
PdfCatchRespond(r) ==
  /\ pdfReqs[r].pc = "catch"
  /\ pdfReqs' = [pdfReqs EXCEPT ![r] = Answered(@, PdfCatch)]
  /\ UNCHANGED <<hasS3, pdfUrl, store, open, renders, pdfSeq, notPdf>>

\* GET /api/invoices/:id/pdf/raw (mounted before requireAuth): 404 with S3,
\* 401 without the dev bypass, 404 without the invoice row or without its
\* file, else the file
NoRaw == [id |-> "ix", status |-> 0, file |-> 0]
PdfRaw(id) ==
  /\ raw' = [id |-> id,
             status |-> IF hasS3 THEN 404
                        ELSE IF ~allowDevBypass THEN 401
                        ELSE IF id \notin PdfInvoices THEN 404
                        ELSE IF store[id] = 0 THEN 404 ELSE 200,
             file |-> IF ~hasS3 /\ allowDevBypass /\ id \in PdfInvoices THEN store[id] ELSE 0]
  /\ UNCHANGED <<pdfVars, ordVars, invVars, anVars, authVars, httpVars, rrVars, linkVars, dashVars>>

PdfIdle ==
  /\ raw = NoRaw
  /\ pdfUrl = [i \in PdfInvoices |-> NULL]
  /\ store = [i \in PdfInvoices |-> 0]
  /\ open = {}
  /\ renders = 0
  /\ pdfSeq = 0
  /\ pdfReqs = [r \in Slots |-> IdlePdfReq]
\* the deployment runs in one storage mode
PdfInit == hasS3 \in BOOLEAN /\ PdfIdle

\* the services at rest (a deployment on local disk)
PdfRest == hasS3 = FALSE /\ PdfIdle


PdfNext ==
  \/ \E id \in PdfInvoiceIds : PdfRaw(id)
  \/ \E r \in Slots, id \in PdfInvoiceIds : PdfBegin(r, id)
  \/ \E r \in Slots : PdfMissing(r)
  \/ \E r \in Slots : PdfShortcut(r)
  \/ \E r \in Slots : PdfFound(r)
  \/ \E r \in Slots : PdfItems(r)
  \/ \E r \in Slots : PdfHtml(r)
  \/ \E r \in Slots : PdfLaunch(r)
  \/ \E r \in Slots : RenderStep(r)
  \/ \E r \in Slots : RenderThrow(r)
  \/ \E r \in Slots : PdfClose(r)
  \/ \E r \in Slots : PdfUpload(r)
  \/ \E r \in Slots : PdfUpdateS3(r)
  \/ \E r \in Slots : PdfSign(r)
  \/ \E r \in Slots : PdfMkdir(r)
  \/ \E r \in Slots : PdfWrite(r)
  \/ \E r \in Slots : PdfUpdateLocal(r)
  \/ \E r \in Slots : PdfThrow(r)
  \/ \E r \in Slots : PdfCatchRespond(r)

\* --------------------------------------------- requireAuth (middleware/auth.ts)
\* User rows ("" is an absent id or email), the dev admin the bypass creates
UserRow == [id |-> "u1", email |-> "e1"]
DevAdmin == [id |-> "dev", email |-> "dev@local.test"]
NoUser == [id |-> "", email |-> ""]

\* What a request carries: the method, the Authorization header ("none",
\* "basic" or "bearer"), the token's payload as normalizeJwtPayload yields it
\* and whether verifyToken accepts the token, and the x-debug-* hints.
NoToken == [valid |-> FALSE, id |-> "", email |-> ""]
Tokens ==
  {NoToken} \cup [valid : {TRUE}, id : {"", "u1", "ux"}, email : {"", "e1", "ex"}]
Hints == {NoUser, [id |-> "u1", email |-> ""], [id |-> "", email |-> "e1"]}
AuthInputs ==
  {[method |-> "OPTIONS", hdr |-> "none", tok |-> NoToken, hint |-> NoUser]}
  \cup [method : {"GET"}, hdr : {"none", "basic"}, tok : {NoToken}, hint : Hints]
  \cup [method : {"GET"}, hdr : {"bearer"}, tok : Tokens, hint : Hints]

\* prisma.user.findUnique({ where: { id } }) / ({ where: { email } }):
\* the row, or NoUser
RECURSIVE FindUser(_, _, _)
FindUser(us, field, v) ==
  IF us = <<>> THEN NoUser
  ELSE IF (IF field = "id" THEN Head(us).id ELSE Head(us).email) = v THEN Head(us)
  ELSE FindUser(Tail(us), field, v)

\* getOrCreateDevUser: the hinted user, else the first user, else the dev
\* admin (created when missing); yields the user and the User table after
getOrCreateDevUser(us, hint) ==
  LET byId == IF hint.id # "" THEN FindUser(us, "id", hint.id) ELSE NoUser
      byEmail == IF hint.email # "" THEN FindUser(us, "email", hint.email) ELSE NoUser
  IN IF byId # NoUser THEN [user |-> byId, users |-> us]
     ELSE IF byEmail # NoUser THEN [user |-> byEmail, users |-> us]
     ELSE IF us # <<>> THEN [user |-> us[1], users |-> us]
     ELSE [user |-> DevAdmin, users |-> <<DevAdmin>>]

\* A request in the middleware.  pc is the await it is at; out is how the
\* middleware ended ("next": the handler runs with req.user = user).
IdleAuthReq == [pc |-> "idle", in |-> CHOOSE i \in AuthInputs : i.method = "OPTIONS",
                user |-> NoUser, out |-> "none"]
AuthFirstIdle(r) ==
  authReqs[r].pc = "idle" /\ \A q \in Slots : q < r => authReqs[q].pc # "idle"

\* the middleware ends; the x-debug-* hints are not kept with the outcome
Ended(q, out, user) ==
  [q EXCEPT !.pc = "idle", !.out = out, !.user = user, !.in.hint = NoUser]

\* line 89 / line 95: without the bypass 401, with it the dev user path
NoMatch(q) == IF ~allowDevBypass THEN Ended(q, "401", NoUser) ELSE [q EXCEPT !.pc = "devUser"]
Caught(q) == IF ~allowDevBypass THEN Ended(q, "401", NoUser) ELSE [q EXCEPT !.pc = "fallback"]
\* line 101 / line 115
Fallback(q) == IF allowDevBypass THEN [q EXCEPT !.pc = "fallback"] ELSE Ended(q, "401", NoUser)

\* the request enters requireAuth and runs to its first await
AuthBegin(r, i) ==
  /\ AuthFirstIdle(r)
  /\ LET q == [IdleAuthReq EXCEPT !.in = i] IN
     authReqs' = [authReqs EXCEPT ![r] =
       IF i.method = "OPTIONS" THEN Ended(q, "next", NoUser)
       ELSE IF i.hdr = "bearer"
            THEN IF ~i.tok.valid THEN Caught(q)
                 ELSE IF i.tok.id # "" THEN [q EXCEPT !.pc = "byId"]
                 ELSE IF i.tok.email # "" THEN [q EXCEPT !.pc = "byEmail"]
                 ELSE NoMatch(q)
            ELSE Fallback(q)]
  /\ UNCHANGED <<NODE_ENV, ALLOW_DEV_AUTH, users, notAuth>>

\* `prisma.user.findUnique({ where: { id: norm.id } })` resolves
AuthById(r) ==
  /\ authReqs[r].pc = "byId"
  /\ LET q == authReqs[r]
         u == FindUser(users, "id", q.in.tok.id)
     IN authReqs' = [authReqs EXCEPT ![r] =
          IF u # NoUser THEN Ended(q, "next", u)
          ELSE IF q.in.tok.email # "" THEN [q EXCEPT !.pc = "byEmail"]
          ELSE NoMatch(q)]
  /\ UNCHANGED <<NODE_ENV, ALLOW_DEV_AUTH, users, notAuth>>

\* `prisma.user.findUnique({ where: { email: norm.email } })` resolves
AuthByEmail(r) ==
  /\ authReqs[r].pc = "byEmail"
  /\ LET q == authReqs[r]
         u == FindUser(users, "email", q.in.tok.email)
     IN authReqs' = [authReqs EXCEPT ![r] =
          IF u # NoUser THEN Ended(q, "next", u) ELSE NoMatch(q)]
  /\ UNCHANGED <<NODE_ENV, ALLOW_DEV_AUTH, users, notAuth>>

\* an await of the token branch rejects (a database error): the catch of
\* line 94
AuthCatch(r) ==
  /\ authReqs[r].pc \in {"byId", "byEmail", "devUser"}
  /\ authReqs' = [authReqs EXCEPT ![r] = Caught(@)]
  /\ UNCHANGED <<NODE_ENV, ALLOW_DEV_AUTH, users, notAuth>>

\* line 90: `getOrCreateDevUser()` for a verified token without a user
AuthDevUser(r) ==
  /\ authReqs[r].pc = "devUser"
  /\ LET g == getOrCreateDevUser(users, NoUser) IN
       /\ users' = g.users
       /\ authReqs' = [authReqs EXCEPT ![r] = Ended(@, "next", g.user)]
  /\ UNCHANGED <<NODE_ENV, ALLOW_DEV_AUTH, notAuth>>

\* lines 101-108: the dev bypass with the x-debug-* hints
AuthFallback(r) ==
  /\ authReqs[r].pc = "fallback"
  /\ LET g == getOrCreateDevUser(users, authReqs[r].in.hint) IN
       /\ users' = g.users
       /\ authReqs' = [authReqs EXCEPT ![r] = Ended(@, "next", g.user)]
  /\ UNCHANGED <<NODE_ENV, ALLOW_DEV_AUTH, notAuth>>

\* lines 109-111: the bypass itself fails
AuthFallbackFail(r) ==
  /\ authReqs[r].pc = "fallback"
  /\ authReqs' = [authReqs EXCEPT ![r] = Ended(@, "500", NoUser)]
  /\ UNCHANGED <<NODE_ENV, ALLOW_DEV_AUTH, users, notAuth>>

AuthIdle ==
  /\ NODE_ENV = "production"
  /\ ALLOW_DEV_AUTH = ""
  /\ users = <<UserRow>>
  /\ authReqs = [r \in Slots |-> IdleAuthReq]
\* any environment, with the User table empty or seeded
AuthInit ==
  /\ NODE_ENV \in NodeEnvs
  /\ ALLOW_DEV_AUTH \in AllowDevAuths
  /\ users \in {<<>>, <<UserRow>>}
  /\ authReqs = [r \in Slots |-> IdleAuthReq]

AuthNext ==
  \/ \E r \in Slots, i \in AuthInputs : AuthBegin(r, i)
  \/ \E r \in Slots : AuthById(r)
  \/ \E r \in Slots : AuthByEmail(r)
  \/ \E r \in Slots : AuthCatch(r)
  \/ \E r \in Slots : AuthDevUser(r)
  \/ \E r \in Slots : AuthFallback(r)
  \/ \E r \in Slots : AuthFallbackFail(r)

\* ------------------------------------ the REST routes and their error paths
\* The routes that address one row by id, per resource, with what each does
\* when a database call rejects and when the row is missing:
\*   catch  "next": try/catch with next(err), answered by the error handler
\*          "own":  try/catch answering 500 itself
\*          "none": an async handler without try/catch
\*   guard  "find":  findUnique and an explicit 404 when it yields null
\*          "throw": the write (update / delete) or an explicit throw rejects
Kinds == {"customer", "product", "order", "invoice", "delivery", "driver"}
Ops == {"read", "update", "status", "delete", "create"}
NoRoute == [catch |-> "", guard |-> ""]
Route(kind, op) ==
  CASE kind = "customer" /\ op = "read" -> [catch |-> "next", guard |-> "find"]
    [] kind = "customer" /\ op \in {"update", "delete"} -> [catch |-> "next", guard |-> "throw"]
    [] kind = "product" /\ op = "read" -> [catch |-> "next", guard |-> "find"]
    [] kind = "product" /\ op \in {"update", "delete"} -> [catch |-> "next", guard |-> "throw"]
    [] kind = "order" /\ op = "read" -> [catch |-> "next", guard |-> "find"]
    [] kind = "order" /\ op \in {"update", "status"} -> [catch |-> "next", guard |-> "throw"]
    [] kind = "invoice" /\ op \in {"read", "status"} -> [catch |-> "own", guard |-> "find"]
    [] kind = "delivery" /\ op = "status" -> [catch |-> "next", guard |-> "find"]
    [] kind = "delivery" /\ op = "update" -> [catch |-> "next", guard |-> "throw"]
    [] kind = "driver" /\ op \in {"update", "delete", "create"} -> [catch |-> "none", guard |-> "throw"]
    [] OTHER -> NoRoute

\* the row ids a request may name: "a" is in the initial tables, "b" is the
\* driver POST /drivers creates, "x" is never a row
RowIds == {"a", "b", "x"}
HttpInputs ==
  {i \in [kind : Kinds, op : Ops, id : RowIds] :
     /\ Route(i.kind, i.op) # NoRoute
     /\ i.op = "create" <=> i.id = "b"}

\* errors: `status` is err.status (0: the error object has none; neither
\* Error('ORDER_NOT_FOUND') nor a Prisma error has one)
NoErr == [name |-> "", status |-> 0]
RecordNotFound == [name |-> "NOT_FOUND", status |-> 0]
DbError == [name |-> "DB_ERROR", status |-> 0]

\* A request in a handler.  pc: "idle" | "db" (awaiting the database) |
\* "errorHandler" (next(err) called) | "dropped" (the handler's promise
\* rejected with nobody to catch it: the process logs UNHANDLED_REJECTION and
\* the request gets no response).  missing tells that the row asked for was
\* not there; failed that a database call rejected unexpectedly; status is
\* the response's status (0: none sent).
IdleHttpReq ==
  [pc |-> "idle", in |-> [kind |-> "order", op |-> "read", id |-> "x"],
   err |-> NoErr, missing |-> FALSE, failed |-> FALSE, status |-> 0]
HttpFirstIdle(r) ==
  httpReqs[r].pc = "idle" /\ \A q \in Slots : q < r => httpReqs[q].pc # "idle"

Respond(q, status) == [q EXCEPT !.pc = "idle", !.status = status]

\* index.ts error handler: `const status = err?.status || 500`
ErrorStatus(err) == IF err.status # 0 THEN err.status ELSE 500

\* a database call of the handler rejects with err: what runs next depends on
\* the handler's catch (Express 4 does not observe a handler's promise)
Rejected(q, err) ==
  CASE Route(q.in.kind, q.in.op).catch = "next" -> [q EXCEPT !.pc = "errorHandler", !.err = err]
    [] Route(q.in.kind, q.in.op).catch = "own" -> Respond([q EXCEPT !.err = err], 500)
    [] Route(q.in.kind, q.in.op).catch = "none" -> [q EXCEPT !.pc = "dropped", !.err = err]

\* the request has passed requireAuth and validation and awaits the database
HttpBegin(r, i) ==
  /\ HttpFirstIdle(r)
  /\ httpReqs' = [httpReqs EXCEPT ![r] = [IdleHttpReq EXCEPT !.pc = "db", !.in = i]]
  /\ UNCHANGED <<tables, notHttp>>

\* the database call resolves on an existing row (or creates the row)
HttpOk(r) ==
  /\ httpReqs[r].pc = "db"
  /\ LET i == httpReqs[r].in IN
       /\ i.op # "create" => i.id \in tables[i.kind]
       /\ tables' = CASE i.op = "delete" -> [tables EXCEPT ![i.kind] = @ \ {i.id}]
                    [] i.op = "create" -> [tables EXCEPT ![i.kind] = @ \cup {i.id}]
                    [] OTHER -> tables
       /\ httpReqs' = [httpReqs EXCEPT ![r] = Respond(@, IF i.op = "create" THEN 201 ELSE 200)]
  /\ UNCHANGED notHttp

\* the row is not there: 404 from a guarded handler, a rejection otherwise
HttpMissing(r) ==
  /\ httpReqs[r].pc = "db"
  /\ LET i == httpReqs[r].in
         q == [httpReqs[r] EXCEPT !.missing = TRUE]
     IN /\ i.op # "create"
        /\ i.id \notin tables[i.kind]
        /\ httpReqs' = [httpReqs EXCEPT ![r] =
             IF Route(i.kind, i.op).guard = "find" THEN Respond(q, 404)
             ELSE Rejected(q, RecordNotFound)]
  /\ UNCHANGED <<tables, notHttp>>

\* the database call rejects for another reason (connection lost, ...)
HttpDbError(r) ==
  /\ httpReqs[r].pc = "db"
  /\ httpReqs' = [httpReqs EXCEPT ![r] = Rejected([@ EXCEPT !.failed = TRUE], DbError)]
  /\ UNCHANGED <<tables, notHttp>>

\* the error handler of index.ts answers
HttpErrorHandler(r) ==
  /\ httpReqs[r].pc = "errorHandler"
  /\ httpReqs' = [httpReqs EXCEPT ![r] = Respond(@, ErrorStatus(httpReqs[r].err))]
  /\ UNCHANGED <<tables, notHttp>>

HttpIdle ==
  /\ tables = [k \in Kinds |-> {"a"}]
  /\ httpReqs = [r \in Slots |-> IdleHttpReq]

HttpNext ==
  \/ \E r \in Slots, i \in HttpInputs : HttpBegin(r, i)
  \/ \E r \in Slots : HttpOk(r)
  \/ \E r \in Slots : HttpMissing(r)
  \/ \E r \in Slots : HttpDbError(r)
  \/ \E r \in Slots : HttpErrorHandler(r)

\* ------------------------------------------ resolveRange (analytics.ts)
\* A dayjs value: a valid instant t, or Invalid Date.  Every dayjs operation
\* on an invalid value yields an invalid value.
InvalidDate == [valid |-> FALSE, t |-> 0]
At(t) == [valid |-> TRUE, t |-> t]
\* subtract(n, 'day'), startOf('day'), endOf('day'), startOf('year')
subtract(d, n) == IF d.valid THEN At(addDays(d.t, 0 - n)) ELSE InvalidDate
startOf(d) == IF d.valid THEN At(startOfDay(d.t)) ELSE InvalidDate
endOf(d) == IF d.valid THEN At(endOfDay(d.t)) ELSE InvalidDate
\* calendar years are DaysPerYear days long, year 0 starting on day 0
startOfYear(d) ==
  IF d.valid THEN At((Day(d.t) \div DaysPerYear) * DaysPerYear * TicksPerDay) ELSE InvalidDate

\* The from / to strings of a request: absent (undefined or ''), a string
\* dayjs parses to the instant t, or a string it cannot parse.
NoDate == [kind |-> "none", t |-> 0]
BadDate == [kind |-> "bad", t |-> 0]
DateInputs ==
  {NoDate, BadDate} \cup [kind : {"date"}, t : 0..((MaxDay + 1) * TicksPerDay - 1)]
\* `input.to ? ... : ...`
Given(s) == s.kind # "none"
\* dayjs(string)
dayjs(s) == IF s.kind = "date" THEN At(s.t) ELSE InvalidDate

Presets == {"", "last_7", "last_30", "last_90", "ytd", "custom", "bogus"}
RangeInputs == [preset : Presets, from : DateInputs, to : DateInputs]

\* resolveRange(input) evaluated at the instant `now`
resolveRange(input, now) ==
  LET n == At(now)
      e == IF Given(input.to) THEN dayjs(input.to) ELSE n
      s == IF Given(input.from) THEN dayjs(input.from) ELSE subtract(e, 30)
      se == CASE input.preset = "last_7" -> [start |-> subtract(n, 6), end |-> n]
              [] input.preset = "last_30" -> [start |-> subtract(n, 29), end |-> n]
              [] input.preset = "last_90" -> [start |-> subtract(n, 89), end |-> n]
              [] input.preset = "ytd" -> [start |-> startOfYear(n), end |-> n]
              [] OTHER -> [start |-> s, end |-> e]
  IN [start |-> startOf(se.start), end |-> endOf(se.end)]

\* GET /api/analytics and POST /api/analytics: resolveRange, buildAnalytics,
\* res.json(payload).  With an Invalid Date in the window the first query of
\* buildAnalytics rejects (Prisma refuses an invalid Date), the handler
\* calls next(err) and the error handler answers 500.
AnalyticsRequest ==
  LET w == resolveRange(rrIn.input, rrIn.now) IN
  /\ anStatus = 0
  /\ win' = w
  /\ IF w.start.valid /\ w.end.valid
     THEN /\ range' = [start |-> w.start.t, end |-> w.end.t]
          /\ payload' = <<buildAnalytics(db, w.start.t, w.end.t)>>
          /\ anStatus' = 200
     ELSE /\ range' = <<>>
          /\ payload' = <<>>
          /\ anStatus' = 500
  /\ UNCHANGED <<rrIn, db, ordVars, invVars, pdfVars, authVars, httpVars, linkVars, dashVars, raw>>

RangeIdle ==
  /\ rrIn = [input |-> [preset |-> "", from |-> NoDate, to |-> NoDate], now |-> 0]
  /\ win = [start |-> InvalidDate, end |-> InvalidDate]
  /\ anStatus = 0

\* an analytics request with any range input, arriving at any instant
Nows == 0..((MaxDay + 1) * TicksPerDay - 1)
RangeInit ==
  /\ rrIn \in [input : RangeInputs, now : Nows]
  /\ win = [start |-> InvalidDate, end |-> InvalidDate]
  /\ anStatus = 0

RangeNext == AnalyticsRequest

\* ------------------------------- POST /api/invoices and Invoice_orderId_key
\* The creation transaction statement by statement, with the order an
\* invoice is created for.  Invoice.orderId is nullable, references Order
\* (Invoice_orderId_fkey) and carries a unique index (Invoice_orderId_key).
InvOrderIds == {"o1", "o2"}
\* `orderId: orderId || null`
NoOrder == "null"
\* the orderId a request may carry ("ox" names no order row)
InvOrderInputs == InvOrderIds \cup {NoOrder, "ox"}

IdleLinkReq == [pc |-> "idle", orderId |-> NoOrder, n |-> 0, status |-> 0]

\* (faulty variant) no unique index on Invoice.orderId
UniqueViolation_NoIndex(rows, oid) == FALSE

\* the insert violates Invoice_orderId_key: a committed row has the orderId
UniqueViolation(rows, oid) ==
  oid # NoOrder /\ \E i \in DOMAIN rows : rows[i].orderId = oid

\* the insert violates Invoice_orderId_fkey
ForeignKeyViolation(oid) == oid # NoOrder /\ oid \notin InvOrderIds

\* An insert of a key another open transaction has inserted waits until
\* that transaction ends.
InsertWaits(r, oid) ==
  /\ oid # NoOrder
  /\ \E q \in Slots \ {r} : linkReqs[q].pc \in {"items", "commit"} /\ linkReqs[q].orderId = oid

\* POST /api/invoices: the body parsed, the transaction opened
InvTxBegin(r, oid, n) ==
  /\ linkReqs[r].pc = "idle"
  /\ \A q \in Slots : q < r => linkReqs[q].pc # "idle"
  /\ linkSeq < MaxInvRequests
  /\ linkSeq' = linkSeq + 1
  /\ linkReqs' = [linkReqs EXCEPT ![r] = [pc |-> "create", orderId |-> oid, n |-> n, status |-> 0]]
  /\ UNCHANGED <<invRows, itemRows, coreVars, dashVars>>

\* tx.invoice.create
InvTxCreate(r) ==
  /\ linkReqs[r].pc = "create"
  /\ ~InsertWaits(r, linkReqs[r].orderId)
  /\ linkReqs' = [linkReqs EXCEPT ![r].pc = "items"]
  /\ ~UniqueViolation(invRows, linkReqs[r].orderId)
  /\ ~ForeignKeyViolation(linkReqs[r].orderId)
  /\ UNCHANGED <<invRows, itemRows, linkSeq, coreVars, dashVars>>

\* tx.invoice.create rejects: the transaction rolls back, the catch block
\* answers 500 'Failed to create invoice'
InvTxReject(r) ==
  /\ linkReqs[r].pc = "create"
  /\ ~InsertWaits(r, linkReqs[r].orderId)
  /\ \/ UniqueViolation(invRows, linkReqs[r].orderId)
     \/ ForeignKeyViolation(linkReqs[r].orderId)
  /\ linkReqs' = [linkReqs EXCEPT ![r].pc = "idle", ![r].status = 500]
  /\ UNCHANGED <<invRows, itemRows, linkSeq, coreVars, dashVars>>

\* tx.invoiceItem.createMany
InvTxItems(r) ==
  /\ linkReqs[r].pc = "items"
  /\ linkReqs' = [linkReqs EXCEPT ![r].pc = "commit"]
  /\ UNCHANGED <<invRows, itemRows, linkSeq, coreVars, dashVars>>

\* the transaction commits: the invoice row and its item rows reach the
\* tables together; res.status(201)
InvTxCommit(r) ==
  /\ linkReqs[r].pc = "commit"
  /\ invRows' = Append(invRows, [orderId |-> linkReqs[r].orderId])
  /\ itemRows' = itemRows \o [i \in 1..linkReqs[r].n |-> [invoiceId |-> Len(invRows) + 1]]
  /\ linkReqs' = [linkReqs EXCEPT ![r].pc = "idle", ![r].status = 201]
  /\ UNCHANGED <<linkSeq, coreVars, dashVars>>

LinkIdle ==
  /\ invRows = <<>>
  /\ itemRows = <<>>
  /\ linkSeq = 0
  /\ linkReqs = [r \in Slots |-> IdleLinkReq]

LinkNext ==
  \/ \E r \in Slots, oid \in InvOrderInputs, n \in 1..MaxInvItems : InvTxBegin(r, oid, n)
  \/ \E r \in Slots : InvTxCreate(r)
  \/ \E r \in Slots : InvTxReject(r)
  \/ \E r \in Slots : InvTxItems(r)
  \/ \E r \in Slots : InvTxCommit(r)

\* ------------------------------ GET /api/dashboard/metrics (growth metrics)
\* Invoice rows as the two revenue aggregates read them
DashRows == [createdAt : 0..((MaxDashDay + 1) * TicksPerDay - 1), total : 1..MaxTotal]
DashTables == UNION {[1..n -> DashRows] : n \in 0..MaxDashRows}

\* `dayjs(today).subtract(6 / 13 / 7, 'day').toDate()`
last7Start(today) == addDays(today, 0 - 6)
prev7Start(today) == addDays(today, 0 - 13)
prev7End(today) == addDays(today, 0 - 7)

\* prisma.invoice.aggregate({ _sum: { total: true }, where: { createdAt: { gte } } })
SumSince(rows, gte) == SumTotal(SelectSeq(rows, LAMBDA r : r.createdAt >= gte))
\* ... where: { createdAt: { gte, lt } }
SumFromTo(rows, gte, lt) ==
  SumTotal(SelectSeq(rows, LAMBDA r : r.createdAt >= gte /\ r.createdAt < lt))

\* `Number.isFinite(n) ? Math.max(-999, Math.min(999, n)) : 0`
clampPercent(n) ==
  IF n.num > 999 * n.den THEN Ratio(999, 1)
  ELSE IF n.num < (0 - 999) * n.den THEN Ratio(0 - 999, 1)
  ELSE n

\* the weekly growth figures of the metrics handler, at the instant `now`
weeklyGrowth(rows, now) ==
  LET today == startOfDay(now)
      revLast7 == SumSince(rows, last7Start(today))
      revPrev7 == SumFromTo(rows, prev7Start(today), prev7End(today))
  IN [revLast7 |-> revLast7, revPrev7 |-> revPrev7,
      weeklyGrowth |-> clampPercent(IF revPrev7 = 0
                                    THEN (IF revLast7 > 0 THEN Ratio(100, 1) ELSE Zero)
                                    ELSE Ratio((revLast7 - revPrev7) * 100, revPrev7))]

\* GET /api/dashboard/metrics: the growth metrics of the response
DashboardMetrics ==
  /\ dashOut = <<>>
  /\ dashOut' = <<weeklyGrowth(dashIn.rows, dashIn.now)>>
  /\ UNCHANGED <<dashIn, coreVars, linkVars>>

DashIdle ==
  /\ dashIn = [rows |-> <<>>, now |-> 0]
  /\ dashOut = <<>>

\* a metrics request at any instant, over any invoice table whose rows were
\* created before it
DashInit ==
  /\ dashIn \in [rows : DashTables, now : 0..((MaxDashDay + 1) * TicksPerDay - 1)]
  /\ \A i \in DOMAIN dashIn.rows : dashIn.rows[i].createdAt <= dashIn.now
  /\ dashOut = <<>>

DashNext == DashboardMetrics

\* no invoice created for an order, no dashboard request
ExtIdle == LinkIdle /\ DashIdle

\* the services at rest: a production deployment on local disk
SvcIdle == PdfRest /\ AuthIdle /\ HttpIdle /\ RangeIdle /\ ExtIdle

\* ------------------------------------------------------- specification
OrdInit ==
  /\ stock = [p \in Products |-> InitStock]
  /\ orders = <<>>
  /\ movements = <<>>
  /\ deliveries = <<>>
  /\ orderSeq = 0
  /\ reqs = [r \in Slots |-> IdleReq]

Init == OrdInit /\ InvIdle /\ AnIdle /\ SvcIdle

\* One order's life under concurrent requests: a single POST /orders, then
\* status updates and deliveries, two requests in flight at most.
Next ==
  \/ \E r \in Slots, items \in ItemLists, st \in CreateStatusInputs :
       orderSeq = 0 /\ CreateBegin(r, items, st)
  \/ \E r \in Slots : CreateItem(r)
  \/ \E r \in Slots : CreateThrow(r)
  \/ \E r \in Slots : CreateCommit(r)
  \/ \E r \in Slots, id \in OrderIds, st \in StatusInputs : StatusNotFound(r, id, st)
  \/ \E r \in Slots, id \in OrderIds, st \in StatusInputs : StatusBegin(r, id, st)
  \/ \E r \in Slots : StatusCommit(r)
  \/ \E id \in OrderIds : DeliveryCreate(id)
  \/ \E id \in DeliveryIds, s \in DeliveryStatusApi : DeliveryStatus(id, s)

Spec == Init /\ [][Next]_vars

\* One order's life, one request at a time: every request runs to its
\* response before the next one starts (only slot 1 is used).
SeqNext ==
  \/ \E items \in ItemLists, st \in CreateStatusInputs :
       orderSeq = 0 /\ CreateBegin(1, items, st)
  \/ CreateItem(1)
  \/ CreateThrow(1)
  \/ CreateCommit(1)
  \/ \E id \in OrderIds, st \in StatusInputs : StatusNotFound(1, id, st)
  \/ \E id \in OrderIds, st \in StatusInputs : StatusBegin(1, id, st)
  \/ StatusCommit(1)
  \/ \E id \in OrderIds : DeliveryCreate(id)
  \/ \E id \in DeliveryIds, s \in DeliveryStatusApi : DeliveryStatus(id, s)

AnSpec == Init /\ [][AnNext]_vars
TopSpec == Init /\ [][TopNext]_vars

InvSpec == Init /\ [][InvNext]_vars

SeqSpec == Init /\ [][SeqNext]_vars

\* Concurrent cancellations only: orders are created, and every status
\* update asks for CANCELLED, so no order ever leaves CANCELLED.
CancelNext ==
  \/ \E r \in Slots, items \in ItemLists : orderSeq = 0 /\ CreateBegin(r, items, "PENDING")
  \/ \E r \in Slots : CreateItem(r)
  \/ \E r \in Slots : CreateThrow(r)
  \/ \E r \in Slots : CreateCommit(r)
  \/ \E r \in Slots, id \in OrderIds : StatusBegin(r, id, "CANCELLED")
  \/ \E r \in Slots : StatusCommit(r)

CancelSpec == Init /\ [][CancelNext]_vars

\* One order and its delivery: the delivery's status updates statement by
\* statement, two requests in flight at most, next to status updates of
\* the order.
DelivNext ==
  \/ \E r \in Slots, items \in ItemLists :
       orderSeq = 0 /\ Len(items) = 1 /\ CreateBegin(r, items, "PENDING")
  \/ \E r \in Slots : CreateItem(r)
  \/ \E r \in Slots : CreateThrow(r)
  \/ \E r \in Slots : CreateCommit(r)
  \/ \E r \in Slots, id \in OrderIds, st \in StatusInputs : StatusBegin(r, id, st)
  \/ \E r \in Slots : StatusCommit(r)
  \/ \E id \in OrderIds : DeliveryCreate(id)
  \/ \E r \in Slots, id \in DeliveryIds, s \in DeliveryStatusApi : DeliveryStatusBegin(r, id, s)
  \/ \E r \in Slots : DeliveryStatusWrite(r)
  \/ \E r \in Slots : DeliveryStatusThrow(r)
  \/ \E r \in Slots : DeliveryStatusCommit(r)

DelivSpec == Init /\ [][DelivNext]_vars

\* One order creation and stock adjustments, two requests in flight.
AdjustNext ==
  \/ \E r \in Slots, items \in ItemLists, st \in CreateStatusInputs :
       orderSeq = 0 /\ CreateBegin(r, items, st)
  \/ \E r \in Slots : CreateItem(r)
  \/ \E r \in Slots : CreateThrow(r)
  \/ \E r \in Slots : CreateCommit(r)
  \/ \E r \in Slots, pid \in ProductIds, ch \in AdjustChanges : AdjustNotFound(r, pid, ch)
  \/ \E r \in Slots, pid \in ProductIds, ch \in AdjustChanges : AdjustBegin(r, pid, ch)
  \/ \E r \in Slots : AdjustLog(r)
  \/ \E r \in Slots : AdjustCommit(r)

AdjustSpec == Init /\ [][AdjustNext]_vars

\* The same, and cancellations of the order.
StockNext ==
  \/ AdjustNext
  \/ \E r \in Slots, id \in OrderIds : StatusBegin(r, id, "CANCELLED")
  \/ \E r \in Slots : StatusCommit(r)

StockSpec == Init /\ [][StockNext]_vars

\* Order creations only, two of them in flight at the same time.
CreateNext ==
  \/ \E r \in Slots, items \in ItemLists, st \in CreateStatusInputs : CreateBegin(r, items, st)
  \/ \E r \in Slots : CreateItem(r)
  \/ \E r \in Slots : CreateThrow(r)
  \/ \E r \in Slots : CreateCommit(r)

CreateSpec == Init /\ [][CreateNext]_vars

\* The PDF route alone, two requests in flight at most.
PdfStart ==
  /\ OrdInit /\ InvIdle /\ AnIdle /\ PdfInit /\ HttpIdle /\ RangeIdle /\ ExtIdle
  /\ NODE_ENV \in NodeEnvs
  /\ ALLOW_DEV_AUTH = ""
  /\ users = <<UserRow>>
  /\ authReqs = [r \in Slots |-> IdleAuthReq]
PdfSpec == PdfStart /\ [][PdfNext]_vars

\* The auth middleware alone, in any environment.
AuthStart == OrdInit /\ InvIdle /\ AnIdle /\ PdfRest /\ AuthInit /\ HttpIdle /\ RangeIdle /\ ExtIdle
AuthSpec == AuthStart /\ [][AuthNext]_vars

\* The route handlers and the error handler alone.
HttpSpec == Init /\ [][HttpNext]_vars

\* Analytics requests on every range input, at every instant.
RangeStart == OrdInit /\ InvIdle /\ AnIdle /\ PdfRest /\ AuthIdle /\ HttpIdle /\ RangeInit /\ ExtIdle
RangeSpec == RangeStart /\ [][RangeNext]_vars

\* Invoice creations for orders, two transactions open at the same time.
LinkSpec == Init /\ [][LinkNext]_vars

\* The channel grouping over every small order and invoice table.
ChanStart == OrdInit /\ InvIdle /\ ChanInit /\ SvcIdle
ChanSpec == ChanStart /\ [][ChanNext]_vars

\* Dashboard metrics over every invoice table, at every instant.
DashStart ==
  OrdInit /\ InvIdle /\ AnIdle /\ PdfRest /\ AuthIdle /\ HttpIdle /\ RangeIdle /\ LinkIdle /\ DashInit
DashSpec == DashStart /\ [][DashNext]_vars

\* ------------------------------------------------------------- claims
\* the restocks recorded for order id: `cancel` movements and their quantity
RECURSIVE CancelChange(_, _, _)
CancelChange(ms, id, p) ==
  IF ms = <<>> THEN 0
  ELSE (IF Head(ms).reason = "cancel" /\ Head(ms).order = id /\ Head(ms).productId = p
        THEN Head(ms).change ELSE 0)
       + CancelChange(Tail(ms), id, p)

CancelCount(ms, id) ==
  Cardinality({i \in 1..Len(ms) : ms[i].reason = "cancel" /\ ms[i].order = id})

\* the quantity the non-cancelled orders hold of product p
RECURSIVE HeldQty(_, _)
HeldQty(ids, p) ==
  IF ids = {} THEN 0
  ELSE LET id == CHOOSE x \in ids : TRUE
       IN (IF orders[id].status # "CANCELLED" THEN QtyOf(orders[id].items, p) ELSE 0)
          + HeldQty(ids \ {id}, p)

\* C1: over its whole lifetime an order is restocked at most once: for every
\* order and product, the quantity put back by `cancel` movements never
\* exceeds the quantity the order's creation took (requests run one at a time).
C1_RestockedOncePerLifetime ==
  \A id \in DOMAIN orders : \A p \in Products :
    CancelChange(movements, id, p) <= QtyOf(orders[id].items, p)

\* C2: two concurrent CANCELLED updates of the same not-yet-cancelled order
\* restock its items once in total: one `cancel` movement per item, and no
\* product's stock ends above its initial stock.
C2_ConcurrentCancelRestocksOnce ==
  /\ \A id \in DOMAIN orders : CancelCount(movements, id) <= Len(orders[id].items)
  /\ \A p \in Products : stock[p] <= InitStock

\* C3: in every state an item's quantity is deducted from its product's stock
\* exactly when its order is not CANCELLED: each product's stock is the
\* initial stock minus the quantities of the non-cancelled orders.
C3_DeductedIffNotCancelled ==
  \A p \in Products : stock[p] = InitStock - HeldQty(DOMAIN orders, p)

\* C10: order creation is atomic.  A POST /orders that throws part-way leaves
\* orders, stock and ledger as they were; one that returns adds, in one step,
\* the order with one item per requested item, one decrement of each item's
\* quantity and one `sale` movement of -quantity per item.
C10_CreateAtomic ==
  [][\A r \in Slots :
       (reqs[r].pc = "create" /\ reqs'[r].pc = "idle") =>
         IF reqs[r].k <= Len(reqs[r].items)
         THEN /\ orders' = orders
              /\ stock' = stock
              /\ movements' = movements
         ELSE /\ DOMAIN orders' = DOMAIN orders \cup {reqs[r].order}
              /\ reqs[r].order \notin DOMAIN orders
              /\ \A id \in DOMAIN orders : orders'[id] = orders[id]
              /\ orders'[reqs[r].order].items = reqs[r].items
              /\ \A p \in Products : stock'[p] = stock[p] - QtyOf(reqs[r].items, p)
              /\ movements' = movements \o
                   [i \in 1..Len(reqs[r].items) |-> SaleMovement(reqs[r].order, reqs[r].items[i])]
    ]_vars

\* of two POST /orders one has committed and the other has been rolled
\* back: two order ids were drawn, no transaction is open, and the one order
\* that exists is in the database with all of its items and movements
C10_Witness ==
  /\ orderSeq = 2
  /\ \A r \in Slots : reqs[r].pc = "idle"
  /\ Cardinality(DOMAIN orders) = 1
  /\ \E id \in DOMAIN orders :
       /\ Len(orders[id].items) = 2
       /\ Len(movements) = 2
       /\ \A p \in Products : stock[p] = InitStock - QtyOf(orders[id].items, p)

\* C4: after a successful PUT /invoices/:id/status the stored invoice has
\* balance = max(0, total - paidAmount), paidAmount being the request's value
\* or, when the request gives none, the previously stored one (0 when NULL).
C4_BalanceAfterStatusUpdate ==
  [][invReq.pc = "update" /\ invReq'.pc = "idle" =>
       LET id == invReq.id
           before == invoices[id]
           after == invoices'[id]
           paidAmount == IF invReq.paid # NULL THEN invReq.paid[1]
                         ELSE IF before.paidAmount = NULL THEN 0
                         ELSE before.paidAmount[1]
       IN /\ after.paidAmount = <<paidAmount>>
          /\ after.total = before.total
          /\ after.balance = (IF before.total - paidAmount > 0
                              THEN before.total - paidAmount ELSE 0)
          /\ after.status = invReq.status
    ]_vars

\* a status update has stored a payment above the total and a balance of zero
C4_Witness ==
  \E id \in DOMAIN invoices :
    /\ invoices[id].paidAmount # NULL
    /\ invoices[id].paidAmount[1] > invoices[id].total
    /\ invoices[id].balance = 0
    /\ invoices[id].status = "PAID"

\* C5: in every state, directly after creation included, every invoice's
\* balance is total - paidAmount clamped below at zero.
C5_BalanceAlwaysClamped ==
  \A id \in DOMAIN invoices :
    invoices[id].balance =
      Max(0, invoices[id].total - NumberOr0(invoices[id].paidAmount))

\* the response just given and the window it is for
P == payload[1]
RECURSIVE SumField(_, _)
SumField(rows, f) ==
  IF rows = <<>> THEN 0 ELSE Head(rows)[f] + SumField(Tail(rows), f)

\* the revenue and the order count of the N days before the window's first
\* day, N the number of days of the window
WindowDays == Day(range.end) - Day(range.start) + 1
PrevRevenue ==
  SumTotal(InvoicesIn(db, addDays(range.start, 0 - WindowDays), range.start - 1))
PrevOrders ==
  Len(OrdersIn(db, addDays(range.start, 0 - WindowDays), range.start - 1))

\* the growth figure g is the number the claim gives for cur and prev
GrowthAsClaimed(g, cur, prev) ==
  /\ g.den # 0
  /\ (prev = 0 /\ cur > 0) => g.num = 100 * g.den
  /\ (prev = 0 /\ cur = 0) => g.num = 0
  /\ prev > 0 => g.num * prev = (cur - prev) * 100 * g.den

\* C6: growthRevenuePct and growthOrdersPct are 100 when the previous period
\* is 0 and the current one positive, 0 when both are 0, and
\* (cur - prev) / prev * 100 otherwise.
C6_GrowthPct ==
  payload # <<>> =>
    /\ GrowthAsClaimed(P.kpis.growthRevenuePct, P.kpis.revenue, PrevRevenue)
    /\ GrowthAsClaimed(P.kpis.growthOrdersPct, P.kpis.orders, PrevOrders)

\* C7: the revenues of the time series sum to kpis.revenue and its order
\* counts to kpis.orders.
C7_TimeseriesSums ==
  payload # <<>> =>
    /\ SumField(P.timeseries, "revenue") = P.kpis.revenue
    /\ SumField(P.timeseries, "orders") = P.kpis.orders

\* a window of several days with revenue on two of them
C7_Witness ==
  /\ payload # <<>>
  /\ Len(P.timeseries) >= 2
  /\ \E i, j \in 1..Len(P.timeseries) :
       i # j /\ P.timeseries[i].revenue > 0 /\ P.timeseries[j].revenue > 0
  /\ Len(db.invoices) = 2

\* C8: kpis.aov is kpis.revenue / kpis.orders when kpis.orders > 0 and 0 when
\* kpis.orders = 0, also when the revenue is positive.
C8_Aov ==
  payload # <<>> =>
    /\ P.kpis.aov.den # 0
    /\ P.kpis.orders > 0 => P.kpis.aov.num * P.kpis.orders = P.kpis.revenue * P.kpis.aov.den
    /\ P.kpis.orders = 0 => P.kpis.aov.num = 0

\* invoices but no order in the window: positive revenue, aov 0
C8_Witness ==
  /\ payload # <<>>
  /\ P.kpis.orders = 0
  /\ P.kpis.revenue > 0
  /\ P.kpis.aov.num = 0

\* the window's revenue of product p (its items) and of customer c (its
\* invoices)
ProductRevenue(p) ==
  SumRevenue(SelectSeq(ItemsIn(db, range.start, range.end), LAMBDA it : it.productId = p))
CustomerRevenue(c) ==
  SumTotal(SelectSeq(InvoicesIn(db, range.start, range.end), LAMBDA r : r.customerId = c))
WindowProducts ==
  LET its == ItemsIn(db, range.start, range.end) IN {its[i].productId : i \in 1..Len(its)}
WindowCustomers ==
  LET invs == InvoicesIn(db, range.start, range.end) IN {invs[i].customerId : i \in 1..Len(invs)}

\* list holds the (at most) TopN highest-revenue members of all, sorted
IsTopList(list, all, Revenue(_)) ==
  LET listed == {list[i].name : i \in 1..Len(list)} IN
  /\ Len(list) <= TopN
  /\ Len(list) = (IF Cardinality(all) < TopN THEN Cardinality(all) ELSE TopN)
  /\ Cardinality(listed) = Len(list)
  /\ listed \subseteq all
  /\ \A i \in 1..Len(list) : list[i].revenue = Revenue(list[i].name)
  /\ \A i, j \in 1..Len(list) : i < j => list[i].revenue >= list[j].revenue
  /\ \A x \in all \ listed : \A i \in 1..Len(list) : Revenue(x) <= list[i].revenue

\* C9: topProducts and topCustomers hold at most 10 entries, sorted by
\* revenue in non-increasing order, and no product or customer left out has
\* a higher revenue than a listed one.
C9_TopLists ==
  payload # <<>> =>
    /\ IsTopList(P.topProducts, WindowProducts, ProductRevenue)
    /\ IsTopList(P.topCustomers, WindowCustomers, CustomerRevenue)

\* eleven products and customers, ten listed, the one left out below the
\* first of the list and inserted before a listed one
C9_Witness ==
  /\ payload # <<>>
  /\ Cardinality(WindowProducts) > TopN
  /\ Len(P.topProducts) = TopN
  /\ Len(P.topCustomers) = TopN
  /\ \E x \in WindowProducts :
       /\ \A i \in 1..TopN : P.topProducts[i].name # x
       /\ ProductRevenue(x) < P.topProducts[1].revenue
       /\ x < P.topProducts[TopN].name

\* ------------------------------------------------------- stock may go negative
\* every item of a POST /orders body names a product row
AllProductsExist(items) == \A i \in 1..Len(items) : items[i].productId \in Products

\* C11: POST /orders never rejects an order for insufficient stock.  A create
\* request whose items all name existing products ends with its order stored,
\* all its items included, and every product's stock at (previous stock -
\* quantity ordered), whatever the stock was, negative results included.
C11_NoStockRejection ==
  [][\A r \in Slots :
       (reqs[r].pc = "create" /\ reqs'[r].pc = "idle" /\ AllProductsExist(reqs[r].items))
       => /\ reqs[r].order \in DOMAIN orders'
          /\ orders'[reqs[r].order].items = reqs[r].items
          /\ \A p \in Products : stock'[p] = stock[p] - QtyOf(reqs[r].items, p)]_vars

\* an order for more than the stock was stored and left the stock negative
C11_Witness ==
  /\ \A r \in Slots : reqs[r].pc = "idle"
  /\ \E p \in Products :
       /\ stock[p] < 0
       /\ \E id \in DOMAIN orders : QtyOf(orders[id].items, p) > InitStock
       /\ stock[p] = InitStock + ChangeOf(movements, p)

\* ------------------------------------------------------ invoice PDF pipeline
\* request r has been answered
AnsweredPdf(r) == pdfReqs[r].pc = "idle" /\ pdfReqs[r].resp # NoResp

\* C12: a browser launched by renderInvoicePDF is open only while the call
\* is inside its try block or its finally block: once the call has returned
\* or thrown (on success and on a failure of page creation, content loading
\* or PDF generation alike) the browser is closed, and with no PDF request
\* in flight no browser is open.
C12_BrowserClosed ==
  /\ \A r \in open : pdfReqs[r].pc \in RenderPcs \cup {"close"}
  /\ (\A r \in Slots : pdfReqs[r].pc = "idle") => open = {}

\* a request whose render threw after the launch has been answered, a later
\* one is past a successful render, and no browser is open
C12_Witness ==
  /\ open = {}
  /\ \E r \in Slots :
       /\ AnsweredPdf(r)
       /\ pdfReqs[r].fail = "render"
       /\ pdfReqs[r].launches = 1
  /\ \E r \in Slots :
       /\ pdfReqs[r].pc \in {"upload", "mkdir"}
       /\ pdfReqs[r].buf > 0

\* C13 (as claimed): every request for an existing invoice that is answered
\* with a URL has re-rendered the PDF and overwritten the stored copy, in
\* both storage modes, also when the invoice already had a pdfUrl.
C13_AlwaysRerenders ==
  \A r \in Slots :
    (AnsweredPdf(r) /\ pdfReqs[r].resp = PdfOk)
    => (pdfReqs[r].buf > 0 /\ pdfReqs[r].stored)

\* C13 (amended): a request answered with a URL has rendered a new PDF and
\* overwritten the stored copy, except in S3 mode when the invoice row
\* already held an S3 location: then it launched no browser, rendered
\* nothing and stored nothing.  In local mode it re-renders and overwrites
\* also when the row already had its pdfUrl.
C13_RerendersUnlessOnS3 ==
  \A r \in Slots :
    (AnsweredPdf(r) /\ pdfReqs[r].resp = PdfOk)
    => IF hasS3 /\ pdfReqs[r].url = S3Location
       THEN pdfReqs[r].buf = 0 /\ ~pdfReqs[r].stored /\ pdfReqs[r].launches = 0
       ELSE pdfReqs[r].buf > 0 /\ pdfReqs[r].stored /\ pdfReqs[r].launches = 1

\* local mode: a request that read the invoice with its pdfUrl already set
\* rendered the second PDF and replaced the stored copy with it
C13_Witness ==
  /\ ~hasS3
  /\ \E r \in Slots :
       /\ AnsweredPdf(r)
       /\ pdfReqs[r].resp = PdfOk
       /\ pdfReqs[r].url = localPdfUrl
       /\ pdfReqs[r].buf = 2
       /\ store[pdfReqs[r].id] = 2

\* C14 (as claimed): every failed request (missing invoice included) is
\* answered 500 with the generic message, and no step is tried twice.
C14_AnyFailureIs500 ==
  \A r \in Slots :
    /\ pdfReqs[r].launches <= 1 /\ pdfReqs[r].stores <= 1
    /\ (AnsweredPdf(r) /\ pdfReqs[r].fail # "none")
       => pdfReqs[r].resp = [status |-> 500, body |-> "Failed to generate invoice PDF"]

\* C14 (amended): a request for an invoice that does not exist is answered
\* 404 'Not found'; every other failure (a database read or write, the
\* renderer, the upload or the file write) is answered 500 with the generic
\* message; a request without a failure is answered 200; and no request
\* launches a browser or attempts the upload / file write more than once.
C14_FailureResponses ==
  \A r \in Slots :
    /\ pdfReqs[r].launches <= 1 /\ pdfReqs[r].stores <= 1
    /\ AnsweredPdf(r) =>
         pdfReqs[r].resp =
           (CASE pdfReqs[r].fail = "none" -> [status |-> 200, body |-> "url"]
              [] pdfReqs[r].fail = "missing" -> [status |-> 404, body |-> "Not found"]
              [] OTHER -> [status |-> 500, body |-> "Failed to generate invoice PDF"])

\* one request failed for a missing invoice, another for a failed upload
\* after a successful render
C14_Witness ==
  /\ \E r \in Slots :
       /\ AnsweredPdf(r)
       /\ pdfReqs[r].fail = "missing"
       /\ pdfReqs[r].resp.status = 404
  /\ \E r \in Slots :
       /\ AnsweredPdf(r)
       /\ pdfReqs[r].fail = "upload"
       /\ pdfReqs[r].buf > 0
       /\ pdfReqs[r].stores = 0
       /\ pdfReqs[r].resp.status = 500

\* ------------------------------------------------------------ authentication
\* request r has left the middleware
EndedAuth(r) == authReqs[r].pc = "idle" /\ authReqs[r].out # "none"
\* the development bypass is disabled by the environment
BypassDisabled == NODE_ENV = "production" /\ ALLOW_DEV_AUTH \notin {"true", "TRUE"}
UserRows == {users[i] : i \in 1..Len(users)}

\* C15: with the development bypass disabled, a non-OPTIONS request reaches
\* its handler only if it carries a Bearer token that verifies and whose id
\* or email is that of an existing user (who becomes req.user); every other
\* such request is answered 401 and its handler does not run.
C15_AuthOrUnauthorized ==
  BypassDisabled =>
    \A r \in Slots :
      (EndedAuth(r) /\ authReqs[r].in.method # "OPTIONS") =>
        LET q == authReqs[r] IN
        /\ q.out \in {"next", "401"}
        /\ q.out = "next" =>
             /\ q.in.hdr = "bearer"
             /\ q.in.tok.valid
             /\ q.user \in UserRows
             /\ \/ (q.in.tok.id # "" /\ q.user.id = q.in.tok.id)
                \/ (q.in.tok.email # "" /\ q.user.email = q.in.tok.email)

\* bypass disabled: one request got through on its token's email (its id
\* names no user), another with a verified token of an unknown user got 401
C15_Witness ==
  /\ BypassDisabled
  /\ \E r \in Slots :
       /\ EndedAuth(r)
       /\ authReqs[r].out = "next"
       /\ authReqs[r].in.tok.id = "ux"
       /\ authReqs[r].user = UserRow
  /\ \E r \in Slots :
       /\ EndedAuth(r)
       /\ authReqs[r].out = "401"
       /\ authReqs[r].in.tok.valid
       /\ authReqs[r].in.tok.email = "ex"

\* ------------------------------------------------------------ error contract
\* C16: a request whose handler hit an unexpected failure (a database call
\* that rejected) is, until it is answered, on its way to the catch-all
\* error handler, and it is answered 500; none is left without a response.
C16_FailureAnswered500 ==
  \A r \in Slots :
    httpReqs[r].failed =>
      \/ httpReqs[r].pc = "errorHandler"
      \/ httpReqs[r].pc = "idle" /\ httpReqs[r].status = 500

\* the resources C17 names
NamedKinds == {"customer", "product", "order", "invoice", "delivery"}

\* C17: a read, update, status change or delete of a customer, product,
\* order, invoice or delivery whose id names no row is answered 404, and
\* neither finding the row missing nor answering changes any table.
C17_MissingIs404 ==
  [][\A r \in Slots :
       (httpReqs'[r].missing /\ httpReqs'[r].in.kind \in NamedKinds) =>
         /\ httpReqs'[r].pc # "dropped"
         /\ ~httpReqs[r].missing => tables' = tables
         /\ (httpReqs[r].pc # "idle" /\ httpReqs'[r].pc = "idle")
            => (httpReqs'[r].status = 404 /\ tables' = tables)]_vars

\* ------------------------------------------------------------ range resolver
\* the request has been resolved and answered
Resolved == anStatus # 0
\* the calendar days the returned window covers
WinDays == Day(win.end.t) - Day(win.start.t) + 1
IsPreset == rrIn.input.preset \in {"last_7", "last_30", "last_90", "ytd"}

\* C18: resolveRange returns a start at the first instant of a day and an
\* end at the last instant of a day; for last_7, last_30 and last_90 the
\* window covers exactly 7, 30 and 90 calendar days ending on the current
\* day, and for ytd it runs from the first day of the current year through
\* the current day.
C18_ResolveRange ==
  Resolved =>
    /\ win.start.valid /\ win.end.valid
    /\ win.start.t % TicksPerDay = 0
    /\ win.end.t % TicksPerDay = TicksPerDay - 1
    /\ IsPreset => Day(win.end.t) = Day(rrIn.now)
    /\ rrIn.input.preset = "last_7" => WinDays = 7
    /\ rrIn.input.preset = "last_30" => WinDays = 30
    /\ rrIn.input.preset = "last_90" => WinDays = 90
    /\ rrIn.input.preset = "ytd" =>
         Day(win.start.t) = (Day(rrIn.now) \div DaysPerYear) * DaysPerYear

\* C19: without a preset (or with 'custom' or an unknown one) the window
\* runs from the day of `from` to the day of `to` when they are given, and
\* with `from` missing it covers exactly 30 calendar days ending on the day
\* of `to` (the current day when `to` is missing too).  (Stated for from / to
\* strings that parse.)
C19_DefaultWindow ==
  (Resolved /\ ~IsPreset /\ rrIn.input.from.kind # "bad" /\ rrIn.input.to.kind # "bad") =>
    /\ win.start.valid /\ win.end.valid
    /\ Given(rrIn.input.from) => Day(win.start.t) = Day(rrIn.input.from.t)
    /\ Day(win.end.t) = (IF Given(rrIn.input.to) THEN Day(rrIn.input.to.t) ELSE Day(rrIn.now))
    /\ ~Given(rrIn.input.from) => WinDays = 30

\* C20: for every input (a missing or unknown preset, missing or malformed
\* from / to strings included) the resolver yields a valid window with
\* start <= end and the request is answered with a payload, not an error.
C20_NoErrorPath ==
  Resolved =>
    /\ win.start.valid /\ win.end.valid
    /\ win.start.t <= win.end.t
    /\ anStatus = 200
    /\ payload # <<>>

\* ------------------------------------------------------ one invoice per order
\* the invoices of order o
InvoicesOf(o) == {i \in DOMAIN invRows : invRows[i].orderId = o}

\* C21: every order has at most one invoice in every reachable state, and a
\* POST /invoices for an order that already has an invoice ends in an error
\* with neither an Invoice row nor an InvoiceItem row persisted.
C21_OneInvoicePerOrder ==
  [][/\ \A o \in InvOrderIds : Cardinality(InvoicesOf(o)') <= 1
     /\ \A r \in Slots :
          (/\ linkReqs[r].pc # "idle"
           /\ linkReqs'[r].pc = "idle"
           /\ UniqueViolation(invRows, linkReqs[r].orderId))
          => (linkReqs'[r].status = 500 /\ UNCHANGED <<invRows, itemRows>>)]_vars

\* a request for an order that has an invoice was answered 500
C21_Witness ==
  \E r \in Slots :
    /\ linkReqs[r].pc = "idle"
    /\ linkReqs[r].status = 500
    /\ linkReqs[r].orderId \in InvOrderIds
    /\ Cardinality(InvoicesOf(linkReqs[r].orderId)) = 1
    /\ Len(itemRows) = MaxInvItems

\* ------------------------------------------------------ comparison window
\* the orders created on the calendar days lo..hi
OrdersOnDays(lo, hi) ==
  {i \in 1..Len(db.orders) : Day(db.orders[i].createdAt) >= lo /\ Day(db.orders[i].createdAt) <= hi}

\* C22: for a window of N calendar days whose first day is S (start <= end)
\* the comparison window of the growth figures is the N calendar days S-N
\* through S-1: it starts with day S-N, ends with the last instant of day
\* S-1, has N days and shares no instant with the window; the order growth
\* figure compares the window's orders with the orders of those days.
C22_PreviousWindow ==
  (payload # <<>> /\ range.start <= range.end) =>
    LET N == WindowDays
        S == Day(range.start)
        ps == prevStart(range.start, range.end)
        pe == prevEnd(range.start)
    IN /\ ps = (S - N) * TicksPerDay
       /\ pe = S * TicksPerDay - 1
       /\ Day(pe) - Day(ps) + 1 = N
       /\ pe < range.start
       /\ P.kpis.growthOrdersPct =
            GrowthPct(P.kpis.orders, Cardinality(OrdersOnDays(S - N, S - 1)))

\* a window answered with an order in it and an order in the days before it
C22_Witness ==
  /\ payload # <<>>
  /\ range.start <= range.end
  /\ P.kpis.orders > 0
  /\ OrdersOnDays(Day(range.start) - WindowDays, Day(range.start) - 1) # {}

\* ------------------------------------------------------------------ channels
\* the orders of the window, and the channel the claim gives an order
WindowOrders ==
  {i \in 1..Len(db.orders) : Between(db.orders[i].createdAt, range.start, range.end)}
ClaimedChannel(o) ==
  IF o.routeCode = NULL \/ o.routeCode \in {<<"">>, <<" ">>} THEN "Unassigned"
  ELSE IF o.routeCode = <<" R1 ">> THEN "R1" ELSE o.routeCode[1]

\* C23: every order of the window is counted in exactly one channel, its
\* trimmed route code or 'Unassigned' when the route code is null or blank;
\* the channels' order counts sum to kpis.orders; a channel's revenue is the
\* sum of the totals of the qualifying invoices of the window that belong
\* to the orders of that channel.
C23_Channels ==
  payload # <<>> =>
    LET ch == P.channels IN
    /\ \A i \in WindowOrders :
         Cardinality({k \in DOMAIN ch : ch[k].channel = ClaimedChannel(db.orders[i])}) = 1
    /\ \A k \in DOMAIN ch :
         /\ ch[k].orders =
              Cardinality({i \in WindowOrders : ClaimedChannel(db.orders[i]) = ch[k].channel})
         /\ ch[k].orders > 0
         /\ ch[k].revenue =
              SumTotal(SelectSeq(db.invoices, LAMBDA r :
                /\ Between(r.createdAt, range.start, range.end)
                /\ r.status \in INVOICE_STATUSES_FOR_REVENUE
                /\ r.orderId # NULL
                /\ \E i \in WindowOrders :
                     /\ db.orders[i].id = r.orderId[1]
                     /\ ClaimedChannel(db.orders[i]) = ch[k].channel))
    /\ SumField(ch, "orders") = P.kpis.orders

\* two orders of one channel under differently padded route codes, one of
\* them invoiced, and an order without a route code
C23_Witness ==
  /\ payload # <<>>
  /\ Len(P.channels) = 1
  /\ P.channels[1].channel = "R1"
  /\ P.channels[1].orders = 2
  /\ P.channels[1].revenue > 0
  /\ \E i, j \in WindowOrders : db.orders[i].routeCode = <<"R1">> /\ db.orders[j].routeCode = <<" R1 ">>

\* ------------------------------------------------------------- weekly growth
\* the revenue of the invoices created on the calendar days lo..hi
RevenueOnDays(lo, hi) ==
  SumTotal(SelectSeq(dashIn.rows, LAMBDA r : Day(r.createdAt) >= lo /\ Day(r.createdAt) <= hi))

\* C30: weeklyGrowth compares the revenue of the last 7 calendar days, today-6
\* through today, with the revenue of the 7 calendar days before them,
\* today-13 through today-7: every invoice of those 14 days is counted in one
\* of the two sums.
C30_WeeklyWindows ==
  dashOut # <<>> =>
    LET today == Day(dashIn.now) IN
    /\ dashOut[1].revLast7 = RevenueOnDays(today - 6, today)
    /\ dashOut[1].revPrev7 = RevenueOnDays(today - 13, today - 7)

\* ---------------------------------------------------------- status progression
\* the place of a status in pending -> scheduled -> out_for_delivery -> delivered
StatusRank(st) ==
  CASE st = "PENDING" -> 0
    [] st = "SCHEDULED" -> 1
    [] st = "OUT_FOR_DELIVERY" -> 2
    [] st = "DELIVERED" -> 3
    [] st = "CANCELLED" -> 4

\* C24: no order-status update, delivery creation or delivery-status update
\* moves an order's status backward along pending -> scheduled ->
\* out_for_delivery -> delivered, or out of cancelled.
C24_StatusNeverMovesBack ==
  [][\A id \in DOMAIN orders :
       /\ id \in DOMAIN orders'
       /\ StatusRank(orders'[id].status) >= StatusRank(orders[id].status)]_vars

\* ------------------------------------------------------------ mirrored status
\* the order status the claim gives for a delivery status
Mirrored(s) ==
  CASE s = "scheduled" -> "SCHEDULED"
    [] s = "out_for_delivery" -> "OUT_FOR_DELIVERY"
    [] s = "delivered" -> "DELIVERED"
    [] s = "failed" -> "PENDING"
\* slot r's PUT /deliveries/:id/status ends in this step
DeliveryStatusEnds(r) ==
  reqs[r].pc \in {"delivery", "mirror", "mirrored"} /\ reqs'[r].pc = "idle"

\* C25: a PUT /deliveries/:id/status that succeeds leaves the delivery with
\* the requested status and its order with the mirrored one, and a request
\* that ends persists both updates or neither.
C25_MirroredAtomically ==
  [][\A r \in Slots : DeliveryStatusEnds(r) =>
       LET id == reqs[r].order
           oid == deliveries[id].orderId
       IN /\ reqs[r].pc = "mirrored" =>
               /\ orders'[oid].status = Mirrored(reqs[r].arg)
               /\ deliveries'[id].status = toPrismaStatus(reqs[r].arg)
          /\ reqs[r].pc # "mirrored" => UNCHANGED <<orders, deliveries>>]_vars

\* a delivery that a status update left DELIVERED, its order DELIVERED too,
\* no request in flight
C25_Witness ==
  /\ \E id \in DOMAIN deliveries :
       deliveries[id].status = "DELIVERED" /\ orders[deliveries[id].orderId].status = "DELIVERED"
  /\ \A r \in Slots : reqs[r].pc = "idle"

\* ------------------------------------------------------- stored before linked
\* slot r's GET /invoices/:id/pdf is answered in this step
PdfAnswers(r) == pdfReqs[r].pc # "idle" /\ pdfReqs'[r].pc = "idle"

\* C26: a successful generation leaves pdfUrl non-null; whenever pdfUrl is
\* set the PDF it names is already stored (it is written only by a request
\* that stored its rendering before); a request that failed in rendering or
\* in the upload / file write changes no pdfUrl.
C26_StoredBeforeLinked ==
  [][/\ \A i \in PdfInvoices : pdfUrl'[i] # NULL => store'[i] # 0
     /\ \A r \in Slots :
          /\ (PdfAnswers(r) /\ pdfReqs'[r].resp = PdfOk) => pdfUrl'[pdfReqs[r].id] # NULL
          /\ (pdfReqs'[r] # pdfReqs[r] /\ pdfUrl' # pdfUrl) =>
               (pdfReqs[r].stored /\ pdfReqs[r].fail = "none")
          /\ (pdfReqs'[r] # pdfReqs[r] /\ pdfReqs'[r].fail \in {"render", "upload"}) =>
               pdfUrl' = pdfUrl]_vars

\* one request was answered with a URL after storing its rendering, and
\* another one failed in rendering or in storing
C26_Witness ==
  /\ pdfUrl["i1"] # NULL
  /\ store["i1"] # 0
  /\ \E r \in Slots : pdfReqs[r].pc = "idle" /\ pdfReqs[r].resp = PdfOk /\ pdfReqs[r].stored
  /\ \E r \in Slots : pdfReqs[r].pc = "idle" /\ pdfReqs[r].fail \in {"render", "upload"}

\* C27: in local-storage mode the raw route serves the invoice's PDF exactly
\* when an earlier GET /invoices/:id/pdf for it succeeded (pdfUrl is then the
\* raw route's URL), and answers 404 before any generation; in cloud-storage
\* mode it always answers 404.
C27_RawServesGenerated ==
  [][raw' # raw =>
       /\ hasS3 => raw'.status = 404
       /\ (~hasS3 /\ raw'.id \in PdfInvoices) =>
            /\ raw'.status = 200 <=> pdfUrl[raw'.id] = localPdfUrl
            /\ raw'.status = 200 => raw'.file = store[raw'.id]
            /\ pdfUrl[raw'.id] = NULL => raw'.status = 404]_vars

\* ------------------------------------------------------------- stock and ledger
\* C28: every step of an order creation, a cancellation or a stock adjustment
\* changes each product's stock by exactly the sum of the changes of the
\* movements it appends for that product, and leaves the movements recorded
\* before as they were.
C28_StockFollowsLedger ==
  [][/\ Len(movements') >= Len(movements)
     /\ SubSeq(movements', 1, Len(movements)) = movements
     /\ \A p \in Products :
          stock'[p] - stock[p] = ChangeOf(movements', p) - ChangeOf(movements, p)]_vars

\* a sale, its cancellation and an adjustment are in the ledger
C28_Witness ==
  /\ \A r \in Slots : reqs[r].pc = "idle"
  /\ \A reason \in {"sale", "cancel", "adjust"} :
       \E i \in 1..Len(movements) : movements[i].reason = reason /\ movements[i].change # 0

\* the quantities of product p in the committed orders, and the changes of
\* the committed adjustments of p
RECURSIVE OrderedQty(_, _)
OrderedQty(ids, p) ==
  IF ids = {} THEN 0
  ELSE LET id == CHOOSE x \in ids : TRUE
       IN QtyOf(orders[id].items, p) + OrderedQty(ids \ {id}, p)
AdjustedQty(p) ==
  ChangeOf(SelectSeq(movements, LAMBDA m : m.reason = "adjust"), p)

\* C29: once all requests have committed, each product's stock is its
\* initial stock minus the quantities of the committed orders plus the
\* changes of the committed adjustments, however the order creations and
\* the adjustments were interleaved.
C29_NoLostUpdate ==
  (\A r \in Slots : reqs[r].pc = "idle") =>
    \A p \in Products :
      stock[p] = InitStock - OrderedQty(DOMAIN orders, p) + AdjustedQty(p)

\* an order and two adjustments of one of its products have committed
C29_Witness ==
  /\ \A r \in Slots : reqs[r].pc = "idle"
  /\ \E p \in Products :
       /\ OrderedQty(DOMAIN orders, p) > 0
       /\ Cardinality({i \in 1..Len(movements) :
            movements[i].reason = "adjust" /\ movements[i].productId = p
            /\ movements[i].change # 0}) = MaxAdjusts

====
